---------------------------- MODULE Spec2Model ----------------------------
(***************************************************************************)
(* PureMark: deterministic reasoning core of the label scanner.            *)
(*                                                                         *)
(* Texts are TLA+ strings handled character by character (Len, SubSeq and  *)
(* \o on strings), so that word boundaries, substring tests and regular    *)
(* expressions behave as they do in the Python source.  Python's None and  *)
(* the empty string are both written "" wherever the source only tests the *)
(* value for truth (`not text`, `text or ""`).                             *)
(***************************************************************************)
EXTENDS Integers, Sequences, FiniteSets, TLC

(***************************************************************************)
(* Characters and strings (Python str methods and the `re` classes used).  *)
(***************************************************************************)

Char(s, i) == SubSeq(s, i, i)

CharSet(s) == {Char(s, i) : i \in 1..Len(s)}

UpperCase == "ABCDEFGHIJKLMNOPQRSTUVWXYZ"

LowerCase == "abcdefghijklmnopqrstuvwxyz"

Digits == CharSet("0123456789")

AsciiLetters == CharSet(LowerCase)

\* The accented letters of normalize_for_matching's accent_map, with the
\* letters they are replaced by
accent_map == [accented |-> "áàâäãéèêëíìîïóòôöõúùûüñç", plain |-> "aaaaaeeeeiiiiooooouuuunc"]

\* Accented letters occurring in the source's term lists; like every letter
\* they are word characters for Python's \w and \b.
AccentedLetters == CharSet(accent_map.accented)

\* re: \w
WordCharSet == CharSet(UpperCase) \cup AsciiLetters \cup Digits \cup {"_"} \cup AccentedLetters

\* re: \s, and the characters removed by str.strip()
WhiteSpace == {" ", "\t", "\n"}

LowerMap == [c \in CharSet(UpperCase) |-> Char(LowerCase, CHOOSE i \in 1..26 : Char(UpperCase, i) = c)]

\* str.lower(); a string without upper-case letters is returned as it is
RECURSIVE lower(_)
lower(s) ==
  IF \A i \in 1..Len(s) : Char(s, i) \notin DOMAIN LowerMap THEN s
  ELSE IF Len(s) = 1 THEN LowerMap[s]
  ELSE lower(SubSeq(s, 1, Len(s) \div 2)) \o lower(SubSeq(s, Len(s) \div 2 + 1, Len(s)))

\* str.strip()
RECURSIVE lstrip(_)
lstrip(s) == IF s # "" /\ Char(s, 1) \in WhiteSpace THEN lstrip(SubSeq(s, 2, Len(s))) ELSE s

RECURSIVE rstrip(_)
rstrip(s) == IF s # "" /\ Char(s, Len(s)) \in WhiteSpace THEN rstrip(SubSeq(s, 1, Len(s) - 1)) ELSE s

strip(s) == rstrip(lstrip(s))

\* re.sub(r'\s+', ' ', s)
RECURSIVE collapse_whitespace(_)
collapse_whitespace(s) ==
  IF Len(s) <= 1 THEN (IF s \in WhiteSpace THEN " " ELSE s)
  ELSE LET left == SubSeq(s, 1, Len(s) \div 2)
           right == SubSeq(s, Len(s) \div 2 + 1, Len(s))
       IN collapse_whitespace(left)
            \o (IF Char(left, Len(left)) \in WhiteSpace /\ Char(right, 1) \in WhiteSpace
                THEN SubSeq(collapse_whitespace(right), 2, Len(collapse_whitespace(right)))
                ELSE collapse_whitespace(right))

\* `sub in s`
Contains(s, sub) == \E i \in 1..(Len(s) - Len(sub) + 1) : SubSeq(s, i, i + Len(sub) - 1) = sub

\* s.find(sub): 0-based position of the first occurrence, -1 when absent
find(s, sub) ==
  LET found == {i \in 1..(Len(s) - Len(sub) + 1) : SubSeq(s, i, i + Len(sub) - 1) = sub}
  IN IF found = {} THEN -1 ELSE (CHOOSE i \in found : \A j \in found : i <= j) - 1

\* s.endswith(suffix)
EndsWith(s, suffix) == Len(suffix) <= Len(s) /\ SubSeq(s, Len(s) - Len(suffix) + 1, Len(s)) = suffix

\* re: \b at offset p of s (p characters lie before the position)
WordBoundary(s, p) ==
  LET before == p >= 1 /\ Char(s, p) \in WordCharSet
      after  == p < Len(s) /\ Char(s, p + 1) \in WordCharSet
  IN before # after

\* re.search(r'\b' + re.escape(word) + r'\b', s)
SearchWord(s, word) ==
  \E i \in 1..(Len(s) - Len(word) + 1) :
     /\ SubSeq(s, i, i + Len(word) - 1) = word
     /\ WordBoundary(s, i - 1)
     /\ WordBoundary(s, i + Len(word) - 1)

Range(f) == {f[i] : i \in DOMAIN f}

(***************************************************************************)
(* backend/services/helpers.py                                             *)
(***************************************************************************)

normalize_text(text) ==
  IF text = "" THEN "" ELSE collapse_whitespace(strip(lower(text)))

word_in_text(text, word) ==
  IF text = "" \/ word = "" THEN FALSE ELSE SearchWord(lower(text), lower(word))

\* Faulty variant of any_word_in_text: the loop stops after the first word
any_word_in_text_first_only(text, words) == Len(words) > 0 /\ word_in_text(text, words[1])

any_word_in_text(text, words) == \E i \in 1..Len(words) : word_in_text(text, words[i])

\* One match of r'\b[eE][-\s]?(\d{3,4}[a-z]?)\b' starting at character i of
\* text: the captured group, or "" when the pattern does not match there.
\* The alternatives are tried in the regex engine's order (greedy first).
ENumberAt(text, i) ==
  LET n == Len(text)
      DigitsFrom(j, k) == j + k - 1 <= n /\ \A d \in j..(j + k - 1) : Char(text, d) \in Digits
      \* captured group starting at j, "" when none
      Group(j) ==
        LET Try(k, letter) ==
              /\ DigitsFrom(j, k)
              /\ letter => (j + k <= n /\ Char(text, j + k) \in AsciiLetters)
              /\ WordBoundary(text, j + k - 1 + (IF letter THEN 1 ELSE 0))
        IN IF Try(4, TRUE) THEN SubSeq(text, j, j + 4)
           ELSE IF Try(4, FALSE) THEN SubSeq(text, j, j + 3)
           ELSE IF Try(3, TRUE) THEN SubSeq(text, j, j + 3)
           ELSE IF Try(3, FALSE) THEN SubSeq(text, j, j + 2)
           ELSE ""
      withSep == IF i + 1 <= n /\ Char(text, i + 1) \in (WhiteSpace \cup {"-"}) THEN Group(i + 2) ELSE ""
  IN IF Char(text, i) \in {"e", "E"} /\ WordBoundary(text, i - 1)
     THEN IF withSep # "" THEN withSep ELSE Group(i + 1)
     ELSE ""

\* set(re.findall(pattern, text)): the E-numbers of the text, without order
extract_enumbers_set(text) ==
  IF text = "" THEN {}
  ELSE {ENumberAt(text, i) : i \in 1..Len(text)} \ {""}

\* The orders in which list(set(matches)) may enumerate a set of strings
\* (string hashing is seeded per process).
ListOfSet(S) == {q \in [1..Cardinality(S) -> S] : \A i, j \in DOMAIN q : i # j => q[i] # q[j]}

\* extract_enumbers returns list(set(matches)): one of ListOfSet(...)
extract_enumbers(text) == ListOfSet(extract_enumbers_set(text))

RECURSIVE dedupe(_)
dedupe(items) ==
  IF items = <<>> THEN <<>>
  ELSE LET init == dedupe(SubSeq(items, 1, Len(items) - 1))
           x == items[Len(items)]
       IN IF x \in Range(init) THEN init ELSE Append(init, x)


(***************************************************************************)
(* backend/services/config.py                                              *)
(***************************************************************************)

E_NUMBERS_CONFIG ==
  [always_haram |-> <<
      [e |-> "120", name |-> "Carmine/Cochineal", reason |-> "Insect-derived colorant", reason_code |-> "e120_carmine_cochineal_haram"],
      [e |-> "542", name |-> "Bone Phosphate", reason |-> "Derived from animal bones", reason_code |-> "e542_bone_phosphate_haram"],
      [e |-> "901", name |-> "Beeswax", reason |-> "Insect-derived (strict interpretation)", reason_code |-> "e901_beeswax_insect"],
      [e |-> "904", name |-> "Shellac", reason |-> "Insect-derived glaze", reason_code |-> "e904_shellac_insect_haram"],
      [e |-> "913", name |-> "Lanolin", reason |-> "Derived from sheep wool grease", reason_code |-> "e913_lanolin_animal_haram"]>>,
   source_dependent |-> <<
      [e |-> "422", name |-> "Glycerol/Glycerin", reason |-> "Can be animal, plant, or synthetic", reason_code |-> "e422_glycerol_source_unknown"],
      [e |-> "430", name |-> "Polyoxyethylene stearate", reason |-> "Stearate may be animal-derived", reason_code |-> "e430_stearate_source_unknown"],
      [e |-> "431", name |-> "Polyoxyethylene stearate", reason |-> "Stearate may be animal-derived", reason_code |-> "e431_stearate_source_unknown"],
      [e |-> "432", name |-> "Polysorbate 20", reason |-> "Fatty acids may be animal-derived", reason_code |-> "e432_polysorbate_source_unknown"],
      [e |-> "433", name |-> "Polysorbate 80", reason |-> "Fatty acids may be animal-derived", reason_code |-> "e433_polysorbate_source_unknown"],
      [e |-> "434", name |-> "Polysorbate 40", reason |-> "Fatty acids may be animal-derived", reason_code |-> "e434_polysorbate_source_unknown"],
      [e |-> "435", name |-> "Polysorbate 60", reason |-> "Fatty acids may be animal-derived", reason_code |-> "e435_polysorbate_source_unknown"],
      [e |-> "436", name |-> "Polysorbate 65", reason |-> "Fatty acids may be animal-derived", reason_code |-> "e436_polysorbate_source_unknown"],
      [e |-> "441", name |-> "Gelatin", reason |-> "Animal-derived, source unknown", reason_code |-> "e441_gelatin_source_unknown"],
      [e |-> "470", name |-> "Fatty Acid Salts", reason |-> "May be animal-derived", reason_code |-> "e470_fatty_acid_salts_source_unknown"],
      [e |-> "471", name |-> "Mono- and Diglycerides", reason |-> "Glycerides may be animal-derived", reason_code |-> "e471_mono_diglycerides_source_unknown"],
      [e |-> "472", name |-> "Fatty Acid Esters", reason |-> "May be animal-derived", reason_code |-> "e472_fatty_acid_esters_source_unknown"],
      [e |-> "473", name |-> "Sucrose Esters", reason |-> "Fatty acids may be animal-derived", reason_code |-> "e473_sucrose_esters_source_unknown"],
      [e |-> "474", name |-> "Sucroglycerides", reason |-> "Glycerides may be animal-derived", reason_code |-> "e474_sucroglycerides_source_unknown"],
      [e |-> "475", name |-> "Polyglycerol Esters", reason |-> "Fatty acids may be animal-derived", reason_code |-> "e475_polyglycerol_esters_source_unknown"],
      [e |-> "476", name |-> "PGPR", reason |-> "May contain animal-derived components", reason_code |-> "e476_pgpr_source_unknown"],
      [e |-> "477", name |-> "Propanediol Esters", reason |-> "Fatty acids may be animal-derived", reason_code |-> "e477_propanediol_esters_source_unknown"],
      [e |-> "481", name |-> "Sodium Stearoyl Lactylate", reason |-> "Stearate may be animal-derived", reason_code |-> "e481_ssl_source_unknown"],
      [e |-> "482", name |-> "Calcium Stearoyl Lactylate", reason |-> "Stearate may be animal-derived", reason_code |-> "e482_csl_source_unknown"],
      [e |-> "483", name |-> "Stearyl Tartrate", reason |-> "Stearate may be animal-derived", reason_code |-> "e483_stearyl_tartrate_source_unknown"],
      [e |-> "491", name |-> "Sorbitan Monostearate", reason |-> "Stearate may be animal-derived", reason_code |-> "e491_sorbitan_monostearate_source_unknown"],
      [e |-> "492", name |-> "Sorbitan Tristearate", reason |-> "Stearate may be animal-derived", reason_code |-> "e492_sorbitan_tristearate_source_unknown"],
      [e |-> "493", name |-> "Sorbitan Monolaurate", reason |-> "Fatty acids may be animal-derived", reason_code |-> "e493_sorbitan_monolaurate_source_unknown"],
      [e |-> "494", name |-> "Sorbitan Monooleate", reason |-> "Fatty acids may be animal-derived", reason_code |-> "e494_sorbitan_monooleate_source_unknown"],
      [e |-> "495", name |-> "Sorbitan Monopalmitate", reason |-> "Fatty acids may be animal-derived", reason_code |-> "e495_sorbitan_monopalmitate_source_unknown"],
      [e |-> "570", name |-> "Stearic Acid", reason |-> "Can be animal or plant-derived", reason_code |-> "e570_stearic_acid_source_unknown"],
      [e |-> "572", name |-> "Magnesium Stearate", reason |-> "Stearate may be animal-derived", reason_code |-> "e572_magnesium_stearate_source_unknown"],
      [e |-> "620", name |-> "Glutamic Acid", reason |-> "May be animal-derived", reason_code |-> "e620_glutamic_acid_source_unknown"],
      [e |-> "621", name |-> "MSG", reason |-> "May be fermented on animal-derived media", reason_code |-> "e621_msg_source_unknown"],
      [e |-> "627", name |-> "Disodium Guanylate", reason |-> "Often derived from fish or yeast", reason_code |-> "e627_disodium_guanylate_source_unknown"],
      [e |-> "631", name |-> "Disodium Inosinate", reason |-> "Often derived from meat or fish", reason_code |-> "e631_disodium_inosinate_source_unknown"],
      [e |-> "635", name |-> "Disodium 5'-ribonucleotides", reason |-> "Often derived from meat or fish", reason_code |-> "e635_disodium_ribonucleotides_source_unknown"],
      [e |-> "640", name |-> "Glycine", reason |-> "Amino acid, may be animal-derived", reason_code |-> "e640_glycine_source_unknown"],
      [e |-> "920", name |-> "L-Cysteine", reason |-> "Often from hair, feathers, or hooves", reason_code |-> "e920_lcysteine_source_unknown"],
      [e |-> "921", name |-> "L-Cystine", reason |-> "Often from hair, feathers, or hooves", reason_code |-> "e921_lcystine_source_unknown"]>>,
   halal |-> <<"100", "101", "102", "110", "122", "124", "129", "131", "132", "133", "140", "141",
              "150a", "150b", "150c", "150d", "160a", "160b", "160c", "160d", "162", "163", "170",
              "171", "172", "200", "202", "210", "211", "220", "223", "250", "260", "270", "280",
              "282", "290", "296", "300", "301", "306", "307", "320", "321", "322", "330", "331",
              "332", "333", "334", "336", "338", "339", "340", "341", "400", "401", "406", "407",
              "410", "412", "414", "415", "420", "440", "460", "500", "501", "503", "508", "509",
              "551", "950", "951", "955", "960", "965", "967", "1400", "1442">>]

ALCOHOL_CONFIG ==
  [explicit_alcohols |->
      [terms |-> <<"ethanol", "ethyl alcohol", "alcohol denat", "denatured alcohol",
                   "isopropyl alcohol">>,
       reason |-> "Contains explicit alcohol",
       reason_code |-> "explicit_alcohol_haram"],
   alcoholic_beverages |->
      [terms |-> <<"wine", "beer", "whiskey", "whisky", "vodka", "rum", "brandy", "champagne",
                   "sake", "liqueur", "sherry", "port wine", "cognac">>,
       reason |-> "Alcoholic beverage ingredient",
       reason_code |-> "alcoholic_beverage_haram"],
   alcohol_processing |->
      [terms |-> <<"wine vinegar", "red wine", "white wine", "cooking wine", "rice wine">>,
       reason |-> "Wine-based ingredient",
       reason_code |-> "wine_based_haram"],
   high_risk_extracts |->
      [terms |-> <<"vanilla extract", "almond extract", "lemon extract", "orange extract",
                   "peppermint extract">>,
       reason |-> "Extract may contain alcohol as solvent",
       reason_code |-> "extract_alcohol_risk"],
   halal_alternatives |->
      [terms |-> <<"vanilla powder", "vanilla bean", "vanilla paste", "alcohol-free vanilla",
                   "halal vanilla">>,
       reason |-> "Alcohol-free alternative",
       reason_code |-> "halal_vanilla_alternative"],
   low_risk_fermented |->
      [terms |-> <<"soy sauce", "miso", "tempeh", "kombucha", "kefir", "vinegar",
                   "apple cider vinegar", "balsamic vinegar">>,
       reason |-> "Natural fermentation with negligible alcohol",
       reason_code |-> "low_risk_fermented_halal"]]

ANIMAL_DERIVATIVES_CONFIG ==
  [always_haram |-> <<
      [category |-> "pork",
       terms |-> <<"pork", "pig", "swine", "bacon", "ham", "lard", "porcine", "pancetta",
                   "prosciutto", "chorizo pork", "pepperoni", "salami pork", "pork rinds",
                   "chicharron">>,
       reason |-> "Pork-derived ingredient - always haram",
       reason_code |-> "pork_haram"],
      [category |-> "blood",
       terms |-> <<"blood", "blood meal", "blood plasma", "black pudding", "blood sausage",
                   "boudin noir", "morcilla", "hemoglobin", "dried blood">>,
       reason |-> "Blood-derived ingredient - always haram",
       reason_code |-> "blood_haram"],
      [category |-> "carnivore",
       terms |-> <<"dog", "cat", "lion", "tiger", "bear", "carnivore meat", "wolf", "fox", "hyena">>,
       reason |-> "Carnivore meat - always haram",
       reason_code |-> "carnivore_haram"],
      [category |-> "carrion",
       terms |-> <<"carrion", "dead animal", "roadkill">>,
       reason |-> "Carrion (not properly slaughtered) - always haram",
       reason_code |-> "carrion_haram"],
      [category |-> "civet",
       terms |-> <<"civet coffee", "kopi luwak", "civet cat", "luwak coffee">>,
       reason |-> "Civet-processed coffee - haram (animal digestive process)",
       reason_code |-> "civet_haram"],
      [category |-> "castoreum",
       terms |-> <<"castoreum", "beaver extract", "beaver secretion">>,
       reason |-> "Castoreum (beaver gland secretion) - haram",
       reason_code |-> "castoreum_haram"],
      [category |-> "ambergris",
       terms |-> <<"ambergris", "whale ambergris", "ambra grisea">>,
       reason |-> "Ambergris (whale product) - haram",
       reason_code |-> "ambergris_haram"],
      [category |-> "musk_animal",
       terms |-> <<"musk deer", "animal musk", "deer musk", "musk gland", "kasturi">>,
       reason |-> "Animal musk (deer gland secretion) - haram unless halal slaughtered",
       reason_code |-> "animal_musk_haram"],
      [category |-> "insects",
       terms |-> <<"carmine", "cochineal", "shellac", "confectioners glaze",
                   "confectionery glaze", "resinous glaze", "pharmaceutical glaze", "lac resin",
                   "natural red 4", "crimson lake", "e120", "e904">>,
       reason |-> "Insect-derived ingredient - haram",
       reason_code |-> "insect_derived_haram"]>>,
   source_dependent |-> <<
      [ingredient_type |-> "gelatin",
       generic_terms |-> <<"gelatin", "gelatine", "gel">>,
       sources |-> <<
          [source_name |-> "porcine", status |-> "HARAM", reason |-> "Porcine gelatin",
           terms |-> <<"porcine gelatin", "porcine gelatine", "pig gelatin", "pig gelatine",
                       "pork gelatin", "pork gelatine">>],
          [source_name |-> "bovine", status |-> "MUSHBOOH", reason |-> "Bovine gelatin - requires halal slaughter verification",
           terms |-> <<"bovine gelatin", "bovine gelatine", "beef gelatin", "beef gelatine",
                       "cow gelatin", "cow gelatine">>],
          [source_name |-> "fish", status |-> "HALAL", reason |-> "Fish gelatin - halal",
           terms |-> <<"fish gelatin", "fish gelatine", "marine gelatin", "marine gelatine",
                       "kosher gelatin", "kosher gelatine">>],
          [source_name |-> "halal", status |-> "HALAL", reason |-> "Explicitly halal certified gelatin",
           terms |-> <<"halal gelatin", "halal gelatine", "gelatin (halal)", "gelatine (halal)",
                       "halal certified gelatin">>],
          [source_name |-> "plant", status |-> "HALAL", reason |-> "Plant-based gelatin alternative",
           terms |-> <<"plant gelatin", "vegan gelatin", "vegetable gelatin", "agar", "agar-agar",
                       "carrageenan", "pectin">>]>>,
       default_status |-> "MUSHBOOH",
       default_reason |-> "Gelatin source not specified - requires verification",
       reason_code |-> "gelatin_source_unknown"],
      [ingredient_type |-> "enzymes",
       generic_terms |-> <<"enzyme", "rennet", "lipase", "protease", "pepsin", "amylase",
                           "lactase">>,
       sources |-> <<
          [source_name |-> "microbial", status |-> "HALAL", reason |-> "Microbial/vegetable enzyme",
           terms |-> <<"microbial enzyme", "microbial rennet", "vegetable rennet",
                       "fungal enzyme", "bacterial enzyme", "microbial lipase", "microbial pepsin">>],
          [source_name |-> "animal", status |-> "MUSHBOOH", reason |-> "Animal enzyme - source verification needed",
           terms |-> <<"animal enzyme", "animal rennet", "calf rennet", "animal lipase",
                       "porcine pepsin", "pig pepsin">>]>>,
       default_status |-> "MUSHBOOH",
       default_reason |-> "Enzyme source not specified",
       reason_code |-> "enzyme_source_unknown"],
      [ingredient_type |-> "glycerin",
       generic_terms |-> <<"glycerin", "glycerine", "glycerol", "e422">>,
       sources |-> <<
          [source_name |-> "plant", status |-> "HALAL", reason |-> "Plant-based glycerin",
           terms |-> <<"vegetable glycerin", "vegetable glycerine", "plant glycerin",
                       "plant-based glycerin", "palm glycerin", "coconut glycerin">>],
          [source_name |-> "animal", status |-> "MUSHBOOH", reason |-> "Animal-derived glycerin - requires verification",
           terms |-> <<"animal glycerin", "tallow glycerin", "beef glycerin">>]>>,
       default_status |-> "MUSHBOOH",
       default_reason |-> "Glycerin source not specified - may be animal or plant",
       reason_code |-> "glycerin_source_unknown"],
      [ingredient_type |-> "stearates",
       generic_terms |-> <<"stearate", "stearic acid", "magnesium stearate", "calcium stearate",
                           "sodium stearate", "stearyl alcohol", "e470", "e570", "e572">>,
       sources |-> <<
          [source_name |-> "plant", status |-> "HALAL", reason |-> "Plant-based stearate",
           terms |-> <<"vegetable stearate", "plant stearate", "vegetable stearic acid",
                       "palm stearate">>],
          [source_name |-> "animal", status |-> "MUSHBOOH", reason |-> "Animal-derived stearate",
           terms |-> <<"animal stearate", "tallow stearate", "beef stearate">>]>>,
       default_status |-> "MUSHBOOH",
       default_reason |-> "Stearate source not specified - may be animal or plant",
       reason_code |-> "stearate_source_unknown"],
      [ingredient_type |-> "fatty_acids",
       generic_terms |-> <<"fatty acid", "mono and diglycerides", "monoglycerides",
                           "diglycerides", "e471", "e472", "e473", "e474", "e475", "e476", "e477">>,
       sources |-> <<
          [source_name |-> "plant", status |-> "HALAL", reason |-> "Plant-based fatty acids",
           terms |-> <<"vegetable fatty acid", "plant fatty acid", "vegetable mono",
                       "vegetable emulsifier", "soy-based emulsifier", "palm-based">>],
          [source_name |-> "animal", status |-> "MUSHBOOH", reason |-> "Animal-derived fatty acids",
           terms |-> <<"animal fatty acid", "tallow-based", "beef fat">>]>>,
       default_status |-> "MUSHBOOH",
       default_reason |-> "Fatty acid source not specified",
       reason_code |-> "fatty_acid_source_unknown"],
      [ingredient_type |-> "shortening",
       generic_terms |-> <<"shortening", "tallow">>,
       sources |-> <<
          [source_name |-> "vegetable", status |-> "HALAL", reason |-> "Vegetable shortening",
           terms |-> <<"vegetable shortening", "palm shortening", "coconut shortening",
                       "vegetable oil shortening">>],
          [source_name |-> "animal", status |-> "HARAM", reason |-> "Animal shortening (often contains lard)",
           terms |-> <<"animal shortening", "beef tallow", "lard">>]>>,
       default_status |-> "MUSHBOOH",
       default_reason |-> "Shortening source not specified",
       reason_code |-> "shortening_source_unknown"],
      [ingredient_type |-> "collagen",
       generic_terms |-> <<"collagen", "hydrolyzed collagen", "collagen peptides">>,
       sources |-> <<
          [source_name |-> "marine", status |-> "HALAL", reason |-> "Marine collagen - halal",
           terms |-> <<"marine collagen", "fish collagen", "sea collagen">>],
          [source_name |-> "bovine", status |-> "MUSHBOOH", reason |-> "Bovine collagen - requires verification",
           terms |-> <<"bovine collagen", "beef collagen", "cow collagen">>],
          [source_name |-> "porcine", status |-> "HARAM", reason |-> "Porcine collagen",
           terms |-> <<"porcine collagen", "pig collagen">>],
          [source_name |-> "plant", status |-> "HALAL", reason |-> "Plant-based collagen alternative",
           terms |-> <<"plant collagen", "vegan collagen", "collagen booster">>]>>,
       default_status |-> "MUSHBOOH",
       default_reason |-> "Collagen source not specified",
       reason_code |-> "collagen_source_unknown"],
      [ingredient_type |-> "taurine",
       generic_terms |-> <<"taurine">>,
       sources |-> <<
          [source_name |-> "synthetic", status |-> "HALAL", reason |-> "Synthetic taurine - halal",
           terms |-> <<"synthetic taurine", "vegan taurine", "plant taurine">>],
          [source_name |-> "animal", status |-> "MUSHBOOH", reason |-> "Animal-derived taurine",
           terms |-> <<"ox bile taurine", "animal taurine", "bile taurine">>]>>,
       default_status |-> "MUSHBOOH",
       default_reason |-> "Taurine source not specified - may be synthetic or animal",
       reason_code |-> "taurine_source_unknown"],
      [ingredient_type |-> "vitamin_a",
       generic_terms |-> <<"vitamin a", "retinol", "retinyl palmitate", "retinyl acetate">>,
       sources |-> <<
          [source_name |-> "synthetic", status |-> "HALAL", reason |-> "Synthetic vitamin A",
           terms |-> <<"synthetic vitamin a", "synthetic retinol">>],
          [source_name |-> "plant", status |-> "HALAL", reason |-> "Plant-derived vitamin A precursor",
           terms |-> <<"beta carotene", "plant vitamin a", "carrot extract">>],
          [source_name |-> "fish", status |-> "HALAL", reason |-> "Fish-derived vitamin A",
           terms |-> <<"fish liver oil", "cod liver oil", "fish vitamin a">>]>>,
       default_status |-> "HALAL",
       default_reason |-> "Vitamin A - typically synthetic or plant-derived",
       reason_code |-> "vitamin_a_halal"],
      [ingredient_type |-> "vitamin_d3",
       generic_terms |-> <<"vitamin d3", "cholecalciferol", "d3">>,
       sources |-> <<
          [source_name |-> "lichen", status |-> "HALAL", reason |-> "Lichen-derived vitamin D3",
           terms |-> <<"lichen vitamin d3", "lichen-derived", "vegan vitamin d3",
                       "plant vitamin d3">>],
          [source_name |-> "lanolin", status |-> "HALAL", reason |-> "Lanolin-derived vitamin D3 (wool is halal)",
           terms |-> <<"lanolin vitamin d3", "sheep wool", "wool-derived">>],
          [source_name |-> "fish", status |-> "HALAL", reason |-> "Fish-derived vitamin D3",
           terms |-> <<"fish oil vitamin d3", "fish liver oil", "cod liver">>]>>,
       default_status |-> "HALAL",
       default_reason |-> "Vitamin D3 - typically from lanolin (sheep wool) or fish",
       reason_code |-> "vitamin_d3_halal"],
      [ingredient_type |-> "l_cysteine",
       generic_terms |-> <<"l-cysteine", "l cysteine", "cysteine", "e920", "e921">>,
       sources |-> <<
          [source_name |-> "synthetic", status |-> "HALAL", reason |-> "Synthetic L-cysteine",
           terms |-> <<"synthetic l-cysteine", "fermentation l-cysteine", "vegan l-cysteine">>],
          [source_name |-> "human_hair", status |-> "HARAM", reason |-> "Human hair-derived L-cysteine",
           terms |-> <<"human hair l-cysteine", "human hair cysteine">>],
          [source_name |-> "duck_feather", status |-> "MUSHBOOH", reason |-> "Poultry feather L-cysteine - requires verification",
           terms |-> <<"duck feather", "poultry feather", "feather cysteine">>]>>,
       default_status |-> "MUSHBOOH",
       default_reason |-> "L-cysteine source not specified - often from human hair or feathers",
       reason_code |-> "l_cysteine_source_unknown"],
      [ingredient_type |-> "charcoal",
       generic_terms |-> <<"activated charcoal", "activated carbon", "charcoal", "carbon black">>,
       sources |-> <<
          [source_name |-> "plant", status |-> "HALAL", reason |-> "Plant-based charcoal",
           terms |-> <<"coconut charcoal", "wood charcoal", "bamboo charcoal",
                       "vegetable charcoal">>],
          [source_name |-> "bone", status |-> "MUSHBOOH", reason |-> "Bone-derived charcoal",
           terms |-> <<"bone char", "bone charcoal", "animal charcoal">>]>>,
       default_status |-> "MUSHBOOH",
       default_reason |-> "Charcoal source not specified - may be bone or plant",
       reason_code |-> "charcoal_source_unknown"],
      [ingredient_type |-> "wax",
       generic_terms |-> <<"wax", "food grade wax", "glazing agent">>,
       sources |-> <<
          [source_name |-> "plant", status |-> "HALAL", reason |-> "Plant-based wax",
           terms |-> <<"carnauba wax", "candelilla wax", "rice bran wax", "plant wax",
                       "vegetable wax">>],
          [source_name |-> "insect", status |-> "MUSHBOOH", reason |-> "Beeswax - permissibility debated",
           terms |-> <<"beeswax", "bee wax", "e901">>],
          [source_name |-> "petroleum", status |-> "HALAL", reason |-> "Petroleum-based wax",
           terms |-> <<"paraffin wax", "microcrystalline wax", "petroleum wax">>]>>,
       default_status |-> "MUSHBOOH",
       default_reason |-> "Wax source not specified",
       reason_code |-> "wax_source_unknown"],
      [ingredient_type |-> "natural_flavors",
       generic_terms |-> <<"natural flavor", "natural flavour", "natural flavoring",
                           "natural flavouring", "natural butter flavor", "butter flavor">>,
       sources |-> <<
          [source_name |-> "plant", status |-> "HALAL", reason |-> "Plant-based natural flavor",
           terms |-> <<"plant-based flavor", "vegetable flavor", "fruit flavor", "spice extract">>],
          [source_name |-> "halal", status |-> "HALAL", reason |-> "Halal-certified natural flavor",
           terms |-> <<"halal flavor", "halal natural flavor">>]>>,
       default_status |-> "MUSHBOOH",
       default_reason |-> "Natural flavors have undisclosed sources",
       reason_code |-> "natural_flavor_source_unknown"],
      [ingredient_type |-> "cetyl_stearyl_alcohol",
       generic_terms |-> <<"cetyl alcohol", "stearyl alcohol", "cetearyl alcohol">>,
       sources |-> <<
          [source_name |-> "plant", status |-> "HALAL", reason |-> "Plant-derived fatty alcohol",
           terms |-> <<"vegetable cetyl", "coconut cetyl", "palm cetyl", "plant-derived cetyl">>],
          [source_name |-> "animal", status |-> "MUSHBOOH", reason |-> "Animal-derived fatty alcohol",
           terms |-> <<"animal cetyl", "tallow cetyl">>]>>,
       default_status |-> "MUSHBOOH",
       default_reason |-> "Cetyl/stearyl alcohol source not specified",
       reason_code |-> "cetyl_stearyl_source_unknown"]>>,
   processed_dairy |->
      [terms |-> <<"cheese", "whey", "whey powder", "whey protein", "casein", "caseinate",
                   "sodium caseinate", "calcium caseinate", "casein hydrolysate", "lactose",
                   "milk protein", "whey permeate", "sweet whey">>,
       halal_qualifiers |-> <<"vegetarian cheese", "microbial rennet", "halal cheese",
                              "halal certified", "vegetable rennet">>,
       default_status |-> "MUSHBOOH",
       reason |-> "Dairy may contain animal rennet",
       reason_code |-> "dairy_rennet_unknown"],
   gelatin_products |->
      [terms |-> <<"marshmallow", "marshmallows", "gummy", "gummies", "gummy bear", "gummy bears",
                   "gummy candy", "jello", "jelly", "jell-o", "gelatin capsule", "gel capsule",
                   "softgel", "wine gums">>,
       halal_qualifiers |-> <<"halal marshmallow", "vegan marshmallow", "halal gummy",
                              "vegan gummy", "halal jelly", "vegetarian capsule", "vegan capsule",
                              "plant capsule">>,
       default_status |-> "MUSHBOOH",
       reason |-> "Usually contains gelatin - check ingredients",
       reason_code |-> "gelatin_product_check"],
   starter_cultures |->
      [terms |-> <<"starter culture", "lactic culture", "culture", "yogurt culture",
                   "cheese culture", "probiotic culture">>,
       default_status |-> "MUSHBOOH",
       reason |-> "Starter cultures may be grown on non-halal media",
       reason_code |-> "starter_culture_unknown"],
   other_animal_derived |-> <<
      [category |-> "honey",
       terms |-> <<"honey", "royal jelly", "bee pollen", "propolis">>,
       default_status |-> "HALAL",
       reason |-> "Bee products are halal",
       reason_code |-> "bee_products_halal"],
      [category |-> "eggs",
       terms |-> <<"egg", "eggs", "egg white", "egg yolk", "albumen", "egg powder", "dried egg",
                   "egg lecithin">>,
       default_status |-> "HALAL",
       reason |-> "Eggs are halal",
       reason_code |-> "eggs_halal"],
      [category |-> "bone_products",
       terms |-> <<"bone broth", "beef broth", "chicken broth", "bone phosphate", "bone meal",
                   "dicalcium phosphate">>,
       default_status |-> "MUSHBOOH",
       reason |-> "Bone products require halal source verification",
       reason_code |-> "bone_product_source_unknown"],
      [category |-> "isinglass",
       terms |-> <<"isinglass">>,
       default_status |-> "HALAL",
       reason |-> "Fish bladder - halal (fining agent)",
       reason_code |-> "isinglass_halal"],
      [category |-> "keratin",
       terms |-> <<"keratin", "hydrolyzed keratin">>,
       default_status |-> "MUSHBOOH",
       reason |-> "Keratin from hair/feathers/hooves - source dependent",
       reason_code |-> "keratin_source_unknown"],
      [category |-> "elastin",
       terms |-> <<"elastin", "hydrolyzed elastin">>,
       default_status |-> "MUSHBOOH",
       reason |-> "Elastin from animal connective tissue",
       reason_code |-> "elastin_source_unknown"],
      [category |-> "lanolin",
       terms |-> <<"lanolin", "wool grease", "wool wax">>,
       default_status |-> "HALAL",
       reason |-> "Lanolin from sheep wool - halal (no slaughter)",
       reason_code |-> "lanolin_halal"],
      [category |-> "omega3",
       terms |-> <<"omega-3", "omega 3", "fish oil", "dha", "epa", "salmon oil", "cod liver oil",
                   "krill oil", "algae oil", "algal oil">>,
       default_status |-> "HALAL",
       reason |-> "Omega-3 typically from fish or algae - halal",
       reason_code |-> "omega3_halal"],
      [category |-> "chitosan",
       terms |-> <<"chitosan", "chitin">>,
       default_status |-> "HALAL",
       reason |-> "Chitosan from shellfish/fungi - halal",
       reason_code |-> "chitosan_halal"]>>]

CERTIFIERS_CONFIG ==
  [strong_certifiers |-> <<
      [region |-> "malaysia", cert_code |-> "jakim", full_name |-> "JAKIM", strength |-> "HIGH",
       terms |-> <<"jakim", "jabatan kemajuan islam">>],
      [region |-> "indonesia", cert_code |-> "mui", full_name |-> "MUI/LPPOM", strength |-> "HIGH",
       terms |-> <<"mui", "majelis ulama indonesia", "lppom">>],
      [region |-> "usa", cert_code |-> "ifanca", full_name |-> "IFANCA", strength |-> "HIGH",
       terms |-> <<"ifanca", "islamic food and nutrition council">>],
      [region |-> "usa", cert_code |-> "iswa", full_name |-> "ISWA", strength |-> "HIGH",
       terms |-> <<"iswa", "islamic services of america">>],
      [region |-> "europe", cert_code |-> "hmc", full_name |-> "HMC", strength |-> "HIGH",
       terms |-> <<"hmc", "halal monitoring committee">>],
      [region |-> "europe", cert_code |-> "hfa", full_name |-> "HFA", strength |-> "HIGH",
       terms |-> <<"hfa", "halal food authority">>],
      [region |-> "middle_east", cert_code |-> "esma", full_name |-> "ESMA", strength |-> "HIGH",
       terms |-> <<"esma", "emirates authority">>]>>,
   generic_strong_terms |-> <<"halal certified", "halal certification", "certified halal">>,
   certification_phrases |-> [strong |-> <<"halal approved", "halal verified", "100% halal">>],
   weak_signals |-> [terms |-> <<"suitable for muslims", "muslim friendly", "no pork",
                                "no alcohol", "vegetarian">>]]

INHERENTLY_HALAL_PLANT_SIMPLE ==
  <<"sugar", "salt", "water", "flour", "wheat", "rice", "corn", "oats", "barley", "potato",
    "tomato", "onion", "garlic", "pepper", "spice", "herb", "vegetable", "fruit", "apple",
    "orange", "lemon", "banana", "oil", "olive oil", "sunflower oil", "palm oil", "coconut oil",
    "rapeseed oil", "canola oil", "milk powder", "skim milk", "whole milk", "cocoa", "chocolate",
    "coffee", "tea", "yeast", "baking soda", "baking powder", "vitamin", "mineral", "calcium",
    "iron", "zinc">>

HARAM_COLORANTS == <<"carmine", "cochineal", "e120", "natural red 4", "crimson lake">>

(***************************************************************************)
(* backend/services/lecithin.py                                            *)
(***************************************************************************)

\* Python's None where the source compares a status or a source with it.
None == "None"

\* re.search of one LECITHIN_PATTERNS entry, written as a pattern record:
\*   head \s* [ \(? \s* ] tail_1|..|tail_n        (the trailing \s*\)? of the
\* source patterns is optional and never decides a search).
\* head_e marks the optional final "e" of `lecithine?`, de the optional
\* `(?:de\s*)?` group, apos the optional `(?:d['']?\s*)?` group and paren
\* the optional `\(?\s*` after the first \s*.
RECURSIVE SkipSpaces(_, _)
SkipSpaces(s, i) == IF i <= Len(s) /\ Char(s, i) \in WhiteSpace THEN SkipSpaces(s, i + 1) ELSE i

StartsAt(s, i, sub) == i >= 1 /\ i + Len(sub) - 1 <= Len(s) /\ SubSeq(s, i, i + Len(sub) - 1) = sub

\* positions j <= k reachable from j by consuming \s* (every prefix of the
\* run of white space, since \s* may backtrack)
SpacesFrom(s, j) == j..SkipSpaces(s, j)

MatchLecithinPattern(s, p) ==
  \E i \in 1..Len(s) :
     /\ StartsAt(s, i, p.head)
     /\ \E a \in (IF p.head_e /\ StartsAt(s, i + Len(p.head), "e")
                  THEN {i + Len(p.head), i + Len(p.head) + 1}
                  ELSE {i + Len(p.head)}) :
        \E b \in SpacesFrom(s, a) :
        \E c \in ({b}
                  \cup (IF p.paren /\ StartsAt(s, b, "(") THEN SpacesFrom(s, b + 1) ELSE {})
                  \cup (IF p.de /\ StartsAt(s, b, "de") THEN SpacesFrom(s, b + 2) ELSE {})
                  \cup (IF p.apos /\ StartsAt(s, b, "d")
                        THEN SpacesFrom(s, b + 1)
                             \cup (IF StartsAt(s, b + 1, "'") THEN SpacesFrom(s, b + 2) ELSE {})
                        ELSE {})) :
        \E t \in Range(p.tails) : StartsAt(s, c, t)

LecithinPattern(head, head_e, paren, de, apos, tails) ==
  [head |-> head, head_e |-> head_e, paren |-> paren, de |-> de, apos |-> apos, tails |-> tails]

LECITHIN_PATTERNS ==
  << [source |-> "sunflower", patterns |-> <<
        LecithinPattern("sunflower", FALSE, FALSE, FALSE, FALSE, <<"lecithin">>),
        LecithinPattern("lecithin", FALSE, TRUE, FALSE, FALSE, <<"sunflower">>),
        LecithinPattern("lecithin", TRUE, FALSE, TRUE, FALSE, <<"tournesol", "girasol">>),
        LecithinPattern("sonnenblumen", FALSE, FALSE, FALSE, FALSE, <<"lecithin">>) >>],
     [source |-> "soy", patterns |-> <<
        LecithinPattern("soy", FALSE, FALSE, FALSE, FALSE, <<"lecithin">>),
        LecithinPattern("soya", FALSE, FALSE, FALSE, FALSE, <<"lecithin">>),
        LecithinPattern("lecithin", FALSE, TRUE, FALSE, FALSE, <<"soy">>),
        LecithinPattern("lecithin", TRUE, FALSE, TRUE, FALSE, <<"soja">>),
        LecithinPattern("soja", FALSE, FALSE, FALSE, FALSE, <<"lecithin">>) >>],
     [source |-> "rapeseed", patterns |-> <<
        LecithinPattern("rapeseed", FALSE, FALSE, FALSE, FALSE, <<"lecithin">>),
        LecithinPattern("canola", FALSE, FALSE, FALSE, FALSE, <<"lecithin">>),
        LecithinPattern("lecithin", FALSE, TRUE, FALSE, FALSE, <<"rapeseed", "canola">>),
        LecithinPattern("lecithin", TRUE, FALSE, TRUE, FALSE, <<"colza">>),
        LecithinPattern("raps", FALSE, FALSE, FALSE, FALSE, <<"lecithin">>) >>],
     [source |-> "egg", patterns |-> <<
        LecithinPattern("egg", FALSE, FALSE, FALSE, FALSE, <<"lecithin">>),
        LecithinPattern("lecithin", FALSE, TRUE, FALSE, FALSE, <<"egg">>),
        LecithinPattern("lecithin", TRUE, FALSE, FALSE, TRUE, <<"oeuf", "huevo">>) >>] >>

\* GENERIC_LECITHIN: r"\blecithin\b", r"\blecithine?\b", r"\be322\b", r"\be\s*322\b"
MatchGenericLecithin(s) ==
  \/ SearchWord(s, "lecithin")
  \/ SearchWord(s, "lecithine")
  \/ SearchWord(s, "e322")
  \/ \E i \in 1..Len(s) :
        /\ StartsAt(s, i, "e") /\ WordBoundary(s, i - 1)
        /\ \E j \in SpacesFrom(s, i + 1) : StartsAt(s, j, "322") /\ WordBoundary(s, j + 2)

LECITHIN_HALAL_STATUS ==
  [sunflower |-> "HALAL", soy |-> "UNVERIFIED", rapeseed |-> "HALAL", egg |-> "HALAL",
   unspecified |-> "UNVERIFIED"]

detect_lecithin_source(text) ==
  IF text = "" THEN [is_lecithin |-> FALSE, source |-> None, halal_status |-> None]
  ELSE LET text_lower == lower(text)
           hits == {k \in 1..Len(LECITHIN_PATTERNS) :
                      \E q \in Range(LECITHIN_PATTERNS[k].patterns) : MatchLecithinPattern(text_lower, q)}
       IN IF hits # {}
          THEN LET source == LECITHIN_PATTERNS[CHOOSE k \in hits : \A h \in hits : k <= h].source
               IN [is_lecithin |-> TRUE, source |-> source, halal_status |-> LECITHIN_HALAL_STATUS[source]]
          ELSE IF MatchGenericLecithin(text_lower)
               THEN [is_lecithin |-> TRUE, source |-> "unspecified", halal_status |-> "UNVERIFIED"]
               ELSE [is_lecithin |-> FALSE, source |-> None, halal_status |-> None]

detect_lecithin_source_combined(original_text, normalized_text) ==
  LET result == detect_lecithin_source(original_text)
      result_norm == detect_lecithin_source(normalized_text)
  IN IF result.is_lecithin /\ result.source # "unspecified" THEN result
     ELSE IF result_norm.is_lecithin /\ result_norm.source # "unspecified" THEN result_norm
     ELSE IF result.is_lecithin THEN result
     ELSE result_norm

(***************************************************************************)
(* backend/services/halal.py                                               *)
(***************************************************************************)

HALAL_CONFIRMED == "HALAL_CONFIRMED"
HARAM == "HARAM"
MUSHBOOH == "MUSHBOOH"
NOT_HALAL_UNVERIFIED == "NOT_HALAL_UNVERIFIED"

CONF_HIGH == "HIGH"
CONF_MED == "MEDIUM"
CONF_LOW == "LOW"

\* The first of a set of indices (the entry a `for` loop with a `return`
\* stops at), 0 when the set is empty
FirstIndex(indices) ==
  IF indices = {} THEN 0 ELSE CHOOSE i \in indices : \A j \in indices : i <= j

\* get_enumber_status that reports an E-number of no table as source-dependent
get_enumber_status_unknown_flagged(e_num) ==
  LET Entry(table) == FirstIndex({i \in 1..Len(table) : table[i].e = e_num})
      h == Entry(E_NUMBERS_CONFIG.always_haram)
      m == Entry(E_NUMBERS_CONFIG.source_dependent)
  IN IF h # 0 THEN [status |-> "HARAM", details |-> E_NUMBERS_CONFIG.always_haram[h]]
     ELSE IF m # 0 THEN [status |-> "MUSHBOOH", details |-> E_NUMBERS_CONFIG.source_dependent[m]]
     ELSE IF e_num \in Range(E_NUMBERS_CONFIG.halal) THEN [status |-> "HALAL", details |-> None]
     ELSE [status |-> "MUSHBOOH", details |-> E_NUMBERS_CONFIG.source_dependent[1]]

get_enumber_status(e_num) ==
  LET Entry(table) == FirstIndex({i \in 1..Len(table) : table[i].e = e_num})
      h == Entry(E_NUMBERS_CONFIG.always_haram)
      m == Entry(E_NUMBERS_CONFIG.source_dependent)
  IN IF h # 0 THEN [status |-> "HARAM", details |-> E_NUMBERS_CONFIG.always_haram[h]]
     ELSE IF m # 0 THEN [status |-> "MUSHBOOH", details |-> E_NUMBERS_CONFIG.source_dependent[m]]
     ELSE IF e_num \in Range(E_NUMBERS_CONFIG.halal) THEN [status |-> "HALAL", details |-> None]
     ELSE [status |-> None, details |-> None]

NoFinding == [status |-> None, reason_code |-> None, reason |-> None]

check_alcohol_status(text) ==
  LET text_lower == normalize_text(text)
      Hit(group) == any_word_in_text(text_lower, group.terms)
      Found(status, group) == [status |-> status, reason_code |-> group.reason_code, reason |-> group.reason]
  IN IF Hit(ALCOHOL_CONFIG.halal_alternatives) THEN Found("HALAL", ALCOHOL_CONFIG.halal_alternatives)
     ELSE IF Hit(ALCOHOL_CONFIG.low_risk_fermented) THEN Found("HALAL", ALCOHOL_CONFIG.low_risk_fermented)
     ELSE IF Hit(ALCOHOL_CONFIG.explicit_alcohols) THEN Found("HARAM", ALCOHOL_CONFIG.explicit_alcohols)
     ELSE IF Hit(ALCOHOL_CONFIG.alcoholic_beverages) THEN Found("HARAM", ALCOHOL_CONFIG.alcoholic_beverages)
     ELSE IF Hit(ALCOHOL_CONFIG.alcohol_processing) THEN Found("HARAM", ALCOHOL_CONFIG.alcohol_processing)
     ELSE IF Hit(ALCOHOL_CONFIG.high_risk_extracts) THEN Found("HARAM", ALCOHOL_CONFIG.high_risk_extracts)
     ELSE NoFinding

check_animal_derivative_status(text) ==
  LET text_lower == normalize_text(text)
      HasTerms(data) == any_word_in_text(text_lower, data.terms)
      HasGeneric(data) == any_word_in_text(text_lower, data.generic_terms)
      Default(data) == [status |-> data.default_status, reason_code |-> data.reason_code, reason |-> data.reason]
      FirstWithTerms(table) == FirstIndex({i \in 1..Len(table) : HasTerms(table[i])})
      ah == FirstWithTerms(ANIMAL_DERIVATIVES_CONFIG.always_haram)
      sd == FirstIndex({i \in 1..Len(ANIMAL_DERIVATIVES_CONFIG.source_dependent) :
                          HasGeneric(ANIMAL_DERIVATIVES_CONFIG.source_dependent[i])})
      dairy_config == ANIMAL_DERIVATIVES_CONFIG.processed_dairy
      culture_config == ANIMAL_DERIVATIVES_CONFIG.starter_cultures
      oa == FirstWithTerms(ANIMAL_DERIVATIVES_CONFIG.other_animal_derived)
  IN IF ah # 0
     THEN LET data == ANIMAL_DERIVATIVES_CONFIG.always_haram[ah]
          IN [status |-> "HARAM", reason_code |-> data.reason_code, reason |-> data.reason]
     ELSE IF sd # 0
     THEN LET data == ANIMAL_DERIVATIVES_CONFIG.source_dependent[sd]
              src == FirstWithTerms(data.sources)
          IN IF src # 0
             THEN LET source_data == data.sources[src]
                  IN [status |-> source_data.status,
                      reason_code |-> data.ingredient_type \o "_" \o source_data.source_name
                                        \o "_" \o lower(source_data.status),
                      reason |-> source_data.reason]
             ELSE [status |-> data.default_status, reason_code |-> data.reason_code,
                   reason |-> data.default_reason]
     ELSE IF HasTerms(dairy_config)
     THEN IF any_word_in_text(text_lower, dairy_config.halal_qualifiers)
          THEN [status |-> "HALAL", reason_code |-> "dairy_halal_qualified",
                reason |-> "Dairy with halal qualifier detected"]
          ELSE Default(dairy_config)
     ELSE IF HasTerms(culture_config) THEN Default(culture_config)
     ELSE IF oa # 0 THEN Default(ANIMAL_DERIVATIVES_CONFIG.other_animal_derived[oa])
     ELSE NoFinding

check_halal_certification(text) ==
  LET text_lower == normalize_text(text)
      HasTerms(data) == any_word_in_text(text_lower, data.terms)
      c == FirstIndex({i \in 1..Len(CERTIFIERS_CONFIG.strong_certifiers) :
                         HasTerms(CERTIFIERS_CONFIG.strong_certifiers[i])})
  IN IF c # 0
     THEN LET cert_data == CERTIFIERS_CONFIG.strong_certifiers[c]
          IN [strength |-> cert_data.strength, certifier |-> cert_data.full_name, region |-> cert_data.region]
     ELSE IF any_word_in_text(text_lower, CERTIFIERS_CONFIG.generic_strong_terms)
     THEN [strength |-> "HIGH", certifier |-> "Generic halal certification", region |-> None]
     ELSE IF any_word_in_text(text_lower, CERTIFIERS_CONFIG.certification_phrases.strong)
     THEN [strength |-> "MEDIUM", certifier |-> "Certification phrase detected", region |-> None]
     ELSE IF HasTerms(CERTIFIERS_CONFIG.weak_signals)
     THEN [strength |-> "WEAK", certifier |-> None, region |-> None]
     ELSE [strength |-> "NONE", certifier |-> None, region |-> None]

is_inherently_halal(ing) == any_word_in_text(ing, INHERENTLY_HALAL_PLANT_SIMPLE)

\* The dict returned by evaluate_halal_strict
HalalResult(ing_raw, status, confidence, reason_codes, evidence) ==
  [ingredient |-> ing_raw, status |-> status, confidence |-> confidence,
   reason_codes |-> reason_codes, evidence |-> evidence]

\* One `reasons.append(code); evidence.append(text)` pair
Finding(reason_code, ev) == [reason_code |-> reason_code, evidence |-> ev]

\* A step of evaluate_halal_strict either returns a result at once or falls
\* through to the next step
Return(result) == [returned |-> TRUE, result |-> result]

NoReturn == [returned |-> FALSE]

OrElse(step, rest) == IF step.returned THEN step.result ELSE rest

\* halal.py 234-256: 1) animal derivatives
animal_step(ing_raw, animal_result) ==
  IF animal_result.status = "HARAM"
  THEN Return(HalalResult(ing_raw, HARAM, CONF_HIGH, <<animal_result.reason_code>>, <<animal_result.reason>>))
  ELSE NoReturn

animal_findings(animal_result, strong_cert) ==
  IF animal_result.status = "MUSHBOOH"
  THEN IF strong_cert
       THEN <<Finding(animal_result.reason_code \o "_but_certified",
                      animal_result.reason \o "; but strong halal certification detected")>>
       ELSE <<Finding(animal_result.reason_code, animal_result.reason)>>
  ELSE IF animal_result.status = "HALAL"
  THEN <<Finding(animal_result.reason_code, animal_result.reason)>>
  ELSE <<>>

\* halal.py 258-267: 2) colorants; reasons holds the animal findings only
colorant_step(ing_raw, ing, reasons) ==
  IF any_word_in_text(ing, HARAM_COLORANTS) /\ ~\E i \in 1..Len(reasons) : Contains(reasons[i].reason_code, "insect")
  THEN Return(HalalResult(ing_raw, HARAM, CONF_HIGH, <<"haram_carmine_cochineal">>,
                          <<"Detected carmine/cochineal (E120)">>))
  ELSE NoReturn

\* halal.py 269-291: 3) the loop over e_nums, in the order of the list; it
\* returns HARAM at the first always-haram E-number, and otherwise leaves
\* the findings of the source-dependent ones
RECURSIVE enumber_loop(_, _, _)
enumber_loop(e_nums, ing_raw, findings) ==
  IF e_nums = <<>> THEN [returned |-> FALSE, findings |-> findings]
  ELSE LET e == Head(e_nums)
           result == get_enumber_status(e)
           details == result.details
       IN IF result.status = "HARAM"
          THEN Return(HalalResult(ing_raw, HARAM, CONF_HIGH, <<details.reason_code>>,
                        <<"Detected E" \o e \o " (" \o details.name \o ") - " \o details.reason>>))
          ELSE IF result.status = "MUSHBOOH"
          THEN enumber_loop(Tail(e_nums), ing_raw,
                 Append(findings, Finding(details.reason_code,
                     "Detected E" \o e \o " (" \o details.name \o ") - " \o details.reason)))
          ELSE enumber_loop(Tail(e_nums), ing_raw, findings)

\* Faulty variant of alcohol_step: a HARAM hit is dispositive whatever the
\* certification
alcohol_step_ignores_certification(ing_raw, alcohol_result, strong_cert) ==
  IF alcohol_result.status = "HARAM"
  THEN Return(HalalResult(ing_raw, HARAM, CONF_HIGH, <<alcohol_result.reason_code>>, <<alcohol_result.reason>>))
  ELSE NoReturn

\* halal.py 293-310: 4) alcohol
alcohol_step(ing_raw, alcohol_result, strong_cert) ==
  IF alcohol_result.status = "HARAM" /\ ~strong_cert
  THEN Return(HalalResult(ing_raw, HARAM, CONF_HIGH, <<alcohol_result.reason_code>>, <<alcohol_result.reason>>))
  ELSE NoReturn

alcohol_findings(alcohol_result, strong_cert) ==
  IF alcohol_result.status = "HALAL"
  THEN <<Finding(alcohol_result.reason_code, alcohol_result.reason)>>
  ELSE IF alcohol_result.status = "HARAM" /\ strong_cert
  THEN <<Finding("alcohol_related_term_present_but_halal_cert_claim",
                 alcohol_result.reason \o "; but strong halal certification detected")>>
  ELSE <<>>

\* halal.py 312-349: 5) gelatin
is_gelatin(ing) ==
  word_in_text(ing, "gelatin") \/ word_in_text(ing, "gelatine") \/ "441" \in extract_enumbers_set(ing)

gelatin_step(ing_raw, ing) ==
  IF ~is_gelatin(ing) THEN NoReturn
  ELSE IF any_word_in_text(ing, <<"porcine", "pig", "swine", "pork">>)
  THEN Return(HalalResult(ing_raw, HARAM, CONF_HIGH, <<"haram_porcine_gelatin">>, <<"Porcine gelatin detected">>))
  ELSE IF \/ Contains(ing, "(halal)")
          \/ any_word_in_text(ing, <<"halal gelatin", "halal gelatine", "gelatin (halal)", "gelatine (halal)">>)
  THEN Return(HalalResult(ing_raw, HALAL_CONFIRMED, CONF_HIGH, <<"halal_gelatin_explicit">>,
                          <<"Gelatin explicitly labeled halal">>))
  ELSE IF any_word_in_text(ing, <<"fish gelatin", "fish gelatine", "marine gelatin", "marine gelatine">>)
  THEN Return(HalalResult(ing_raw, HALAL_CONFIRMED, CONF_HIGH, <<"fish_gelatin">>, <<"Fish-derived gelatin">>))
  ELSE NoReturn

gelatin_findings(ing) ==
  IF /\ is_gelatin(ing)
     /\ any_word_in_text(ing, <<"bovine gelatin", "bovine gelatine", "beef gelatin", "beef gelatine">>)
  THEN <<Finding("bovine_gelatin_unverified", "Bovine gelatin without explicit halal certification")>>
  ELSE <<>>

\* halal.py 351-406: 6) lecithin
lecithin_step(ing_raw, lecithin_result, strong_cert) ==
  IF ~lecithin_result.is_lecithin THEN NoReturn
  ELSE IF lecithin_result.source = "sunflower"
  THEN Return(HalalResult(ing_raw, HALAL_CONFIRMED, CONF_HIGH, <<"sunflower_lecithin_halal">>,
                          <<"Sunflower lecithin - plant-based, halal">>))
  ELSE IF lecithin_result.source = "soy"
  THEN IF strong_cert
       THEN Return(HalalResult(ing_raw, HALAL_CONFIRMED, CONF_HIGH, <<"soy_lecithin_certified_halal">>,
                               <<"Soy lecithin with halal certification">>))
       ELSE Return(HalalResult(ing_raw, NOT_HALAL_UNVERIFIED, CONF_MED, <<"soy_lecithin_unverified_mushbooh">>,
                               <<"Soy lecithin - processing may involve alcohol">>))
  ELSE IF lecithin_result.source = "rapeseed"
  THEN Return(HalalResult(ing_raw, HALAL_CONFIRMED, CONF_HIGH, <<"rapeseed_lecithin_halal">>,
                          <<"Rapeseed lecithin - plant-based, halal">>))
  ELSE IF lecithin_result.source = "egg"
  THEN Return(HalalResult(ing_raw, HALAL_CONFIRMED, CONF_HIGH, <<"egg_lecithin_halal">>,
                          <<"Egg lecithin - halal">>))
  ELSE NoReturn

lecithin_findings(lecithin_result, strong_cert) ==
  IF lecithin_result.is_lecithin /\ lecithin_result.source \notin {"sunflower", "soy", "rapeseed", "egg"}
  THEN IF strong_cert
       THEN <<Finding("lecithin_unspecified_but_certified",
                      "Lecithin source unspecified, but product has halal certification")>>
       ELSE <<Finding("lecithin_source_unspecified_mushbooh", "Lecithin source not specified")>>
  ELSE <<>>

\* halal.py 408-412: 7) natural flavors
flavor_findings(ing) ==
  IF any_word_in_text(ing, <<"natural flavor", "natural flavour">>)
  THEN <<Finding("natural_flavour_source_unknown_mushbooh", "Natural flavours have undisclosed sources")>>
  ELSE <<>>

IsHaramTag(rc) == Contains(rc, "haram_") \/ EndsWith(rc, "_haram")

IsMushboohTag(rc) == Contains(rc, "mushbooh") \/ Contains(rc, "unverified") \/ Contains(rc, "source_unknown")

IsHalalTag(rc) == EndsWith(rc, "_halal") \/ Contains(lower(rc), "halal")

\* halal.py 424-425: the entries of mushbooh_reasons and halal_reasons
mushbooh_reasons(reasons) == {i \in 1..Len(reasons) : IsMushboohTag(reasons[i])}

halal_reasons(reasons) == {i \in 1..Len(reasons) : IsHalalTag(reasons[i])}

\* Faulty variant of determine_final_status: a tie between halal-tagged and
\* mushbooh-tagged reason codes is decided for MUSHBOOH
determine_final_status_halal_must_exceed(ing, reasons, strong_cert, weak_cert) ==
  IF strong_cert THEN [status |-> HALAL_CONFIRMED, confidence |-> CONF_HIGH, added |-> <<>>]
  ELSE IF \E rc \in Range(reasons) : IsHaramTag(rc)
  THEN [status |-> HARAM, confidence |-> CONF_HIGH, added |-> <<>>]
  ELSE IF \E rc \in Range(reasons) : IsMushboohTag(rc)
  THEN IF Cardinality(halal_reasons(reasons)) > Cardinality(mushbooh_reasons(reasons))
       THEN [status |-> HALAL_CONFIRMED, confidence |-> CONF_HIGH, added |-> <<>>]
       ELSE [status |-> MUSHBOOH, confidence |-> IF weak_cert THEN CONF_MED ELSE CONF_LOW, added |-> <<>>]
  ELSE IF \E rc \in Range(reasons) : EndsWith(rc, "_halal")
  THEN [status |-> HALAL_CONFIRMED, confidence |-> CONF_HIGH, added |-> <<>>]
  ELSE IF is_inherently_halal(ing)
  THEN [status |-> HALAL_CONFIRMED, confidence |-> CONF_HIGH,
        added |-> <<Finding("inherently_halal_by_nature", "Plant-based ingredient; halal by default")>>]
  ELSE [status |-> HALAL_CONFIRMED, confidence |-> CONF_MED,
        added |-> <<Finding("no_haram_indicators_detected", "No haram indicators detected; default halal")>>]

\* Faulty variant of determine_final_status: the strong certification is
\* consulted after the reason-code tags instead of before them
determine_final_status_tags_first(ing, reasons, strong_cert, weak_cert) ==
  IF \E rc \in Range(reasons) : IsHaramTag(rc)
  THEN [status |-> HARAM, confidence |-> CONF_HIGH, added |-> <<>>]
  ELSE IF \E rc \in Range(reasons) : IsMushboohTag(rc)
  THEN IF halal_reasons(reasons) # {} /\ Cardinality(halal_reasons(reasons)) >= Cardinality(mushbooh_reasons(reasons))
       THEN [status |-> HALAL_CONFIRMED, confidence |-> CONF_HIGH, added |-> <<>>]
       ELSE [status |-> MUSHBOOH, confidence |-> IF weak_cert THEN CONF_MED ELSE CONF_LOW, added |-> <<>>]
  ELSE IF strong_cert THEN [status |-> HALAL_CONFIRMED, confidence |-> CONF_HIGH, added |-> <<>>]
  ELSE IF \E rc \in Range(reasons) : EndsWith(rc, "_halal")
  THEN [status |-> HALAL_CONFIRMED, confidence |-> CONF_HIGH, added |-> <<>>]
  ELSE IF is_inherently_halal(ing)
  THEN [status |-> HALAL_CONFIRMED, confidence |-> CONF_HIGH,
        added |-> <<Finding("inherently_halal_by_nature", "Plant-based ingredient; halal by default")>>]
  ELSE [status |-> HALAL_CONFIRMED, confidence |-> CONF_MED,
        added |-> <<Finding("no_haram_indicators_detected", "No haram indicators detected; default halal")>>]

\* halal.py 414-445: status, confidence and the finding added by the last
\* two branches
determine_final_status(ing, reasons, strong_cert, weak_cert) ==
  IF strong_cert THEN [status |-> HALAL_CONFIRMED, confidence |-> CONF_HIGH, added |-> <<>>]
  ELSE IF \E rc \in Range(reasons) : IsHaramTag(rc)
  THEN [status |-> HARAM, confidence |-> CONF_HIGH, added |-> <<>>]
  ELSE IF \E rc \in Range(reasons) : IsMushboohTag(rc)
  THEN IF halal_reasons(reasons) # {} /\ Cardinality(halal_reasons(reasons)) >= Cardinality(mushbooh_reasons(reasons))
       THEN [status |-> HALAL_CONFIRMED, confidence |-> CONF_HIGH, added |-> <<>>]
       ELSE [status |-> MUSHBOOH, confidence |-> IF weak_cert THEN CONF_MED ELSE CONF_LOW, added |-> <<>>]
  ELSE IF \E rc \in Range(reasons) : EndsWith(rc, "_halal")
  THEN [status |-> HALAL_CONFIRMED, confidence |-> CONF_HIGH, added |-> <<>>]
  ELSE IF is_inherently_halal(ing)
  THEN [status |-> HALAL_CONFIRMED, confidence |-> CONF_HIGH,
        added |-> <<Finding("inherently_halal_by_nature", "Plant-based ingredient; halal by default")>>]
  ELSE [status |-> HALAL_CONFIRMED, confidence |-> CONF_MED,
        added |-> <<Finding("no_haram_indicators_detected", "No haram indicators detected; default halal")>>]

\* Faulty variant of strict_mode_conversion: the status is passed through
strict_mode_conversion_skipped(status, strict_mode) == status

\* halal.py 447-450
strict_mode_conversion(status, strict_mode) ==
  IF strict_mode /\ status = MUSHBOOH THEN NOT_HALAL_UNVERIFIED ELSE status

reason_codes_of(findings) == [i \in 1..Len(findings) |-> findings[i].reason_code]

evidence_of(findings) == [i \in 1..Len(findings) |-> findings[i].evidence]

\* halal.py 414-458: the result when no step returned at once
final_result(ing_raw, strict_mode, findings, final) ==
  HalalResult(ing_raw, strict_mode_conversion(final.status, strict_mode), final.confidence,
              dedupe(reason_codes_of(findings \o final.added)),
              dedupe(evidence_of(findings \o final.added)))

\* halal.py 221-232 and the order of the steps once the checks have run
evaluate_halal_steps(ing_raw, ing, strict_mode, cert_result, animal_result, enumbers, alcohol_result, lecithin_result) ==
  LET strong_cert == cert_result.strength \in {"HIGH", "MEDIUM"}
      weak_cert == cert_result.strength = "WEAK"
      findings == enumbers.findings \o alcohol_findings(alcohol_result, strong_cert)
                    \o gelatin_findings(ing) \o lecithin_findings(lecithin_result, strong_cert)
                    \o flavor_findings(ing)
  IN OrElse(animal_step(ing_raw, animal_result),
     OrElse(colorant_step(ing_raw, ing, animal_findings(animal_result, strong_cert)),
     OrElse(enumbers,
     OrElse(alcohol_step(ing_raw, alcohol_result, strong_cert),
     OrElse(gelatin_step(ing_raw, ing),
     OrElse(lecithin_step(ing_raw, lecithin_result, strong_cert),
            final_result(ing_raw, strict_mode, findings,
                         determine_final_status(ing, reason_codes_of(findings), strong_cert, weak_cert))))))))

\* evaluate_halal_strict; e_nums is the list extract_enumbers(ing) returned
\* at line 270 (one of the orders of the set), original_text is "" for None.
evaluate_halal_strict(ingredient_text, strict_mode, original_text, e_nums) ==
  LET ing == normalize_text(ingredient_text)
      orig == IF original_text # "" THEN normalize_text(original_text) ELSE ""
      cert_result == check_halal_certification(ing)
      animal_result == check_animal_derivative_status(ing)
  IN evaluate_halal_steps(ingredient_text, ing, strict_mode, cert_result, animal_result,
       enumber_loop(e_nums, ingredient_text,
                    animal_findings(animal_result, cert_result.strength \in {"HIGH", "MEDIUM"})),
       check_alcohol_status(ing),
       IF orig # "" THEN detect_lecithin_source_combined(orig, ing) ELSE detect_lecithin_source(ing))

(***************************************************************************)
(* Product-level aggregation:                                              *)
(* backend/services/halal.py, kosher.py and diets.py                       *)
(***************************************************************************)

KOSHER_CONFIRMED == "KOSHER_CONFIRMED"
NOT_KOSHER == "NOT_KOSHER"
REQUIRES_CERTIFICATION == "REQUIRES_CERTIFICATION"

COMPLIANT == "COMPLIANT"
NOT_COMPLIANT == "NOT_COMPLIANT"
UNCERTAIN == "UNCERTAIN"

\* a < b for Python strings, which compare by code point; code_points holds
\* the characters of reason codes in code-point order
RECURSIVE StringLess(_, _)
StringLess(a, b) ==
  IF b = "" THEN FALSE
  ELSE IF a = "" THEN TRUE
  ELSE IF Char(a, 1) = Char(b, 1) THEN StringLess(SubSeq(a, 2, Len(a)), SubSeq(b, 2, Len(b)))
  ELSE LET code_points == "0123456789ABCDEFGHIJKLMNOPQRSTUVWXYZ_abcdefghijklmnopqrstuvwxyz"
       IN find(code_points, Char(a, 1)) < find(code_points, Char(b, 1))

\* sorted(list(all_reason_codes))
RECURSIVE sorted(_)
sorted(codes) ==
  IF codes = {} THEN <<>>
  ELSE LET least == CHOOSE x \in codes : \A y \in codes \ {x} : StringLess(x, y)
       IN <<least>> \o sorted(codes \ {least})

\* A mutation of hits that looks at the first ingredient result only
hits_first_only(ingredient_results, statuses) ==
  IF ingredient_results # <<>> /\ ingredient_results[1].status \in statuses
  THEN <<ingredient_results[1]>> ELSE <<>>

\* The list a `for r in ingredient_results` loop collects: the results whose
\* status is one of statuses, in the order of the list
hits(ingredient_results, statuses) ==
  LET is_hit(r) == r.status \in statuses
  IN SelectSeq(ingredient_results, is_hit)

\* A mutation of Verdict that lists the reason codes in the order of the
\* hits, neither sorted nor without duplicates
Verdict_codes_in_hit_order(status, confidence, reason, hit_list) ==
  LET RECURSIVE codes_from(_)
      codes_from(i) == IF i > Len(hit_list) THEN <<>>
                       ELSE hit_list[i].reason_codes \o codes_from(i + 1)
  IN [status |-> status, confidence |-> confidence, reason |-> reason,
      failing_ingredients |-> [i \in 1..Len(hit_list) |-> hit_list[i].ingredient],
      reason_codes |-> codes_from(1)]

\* The verdict dict built from a non-empty list of hits
Verdict(status, confidence, reason, hit_list) ==
  [status |-> status, confidence |-> confidence, reason |-> reason,
   failing_ingredients |-> [i \in 1..Len(hit_list) |-> hit_list[i].ingredient],
   reason_codes |-> sorted(UNION {Range(hit_list[i].reason_codes) : i \in 1..Len(hit_list)})]

\* halal.py aggregate_product_halal
aggregate_product_halal(ingredient_results, strict_mode) ==
  IF hits(ingredient_results, {HARAM}) # <<>>
  THEN Verdict("HARAM", CONF_HIGH, "Contains explicitly haram ingredient(s).",
               hits(ingredient_results, {HARAM}))
  ELSE IF strict_mode /\ hits(ingredient_results, {MUSHBOOH, NOT_HALAL_UNVERIFIED}) # <<>>
  THEN Verdict("NOT_HALAL_UNVERIFIED", CONF_LOW,
               "Contains ingredient(s) with unverified halal source or processing.",
               hits(ingredient_results, {MUSHBOOH, NOT_HALAL_UNVERIFIED}))
  ELSE Verdict("HALAL", CONF_MED,
               "All detected ingredients are verified halal at ingredient level.", <<>>)

\* " ".join(items)
RECURSIVE join_with_space(_)
join_with_space(items) ==
  IF items = <<>> THEN ""
  ELSE IF Len(items) = 1 THEN items[1]
  ELSE items[1] \o " " \o join_with_space(Tail(items))

\* kosher.py kosher_tags
kosher_tags(result) ==
  LET evidence_str == lower(join_with_space(result.evidence))
      dairy == IF Contains(evidence_str, "dairy") THEN <<"dairy">> ELSE <<>>
      meat == IF Contains(evidence_str, "meat") \/ Contains(evidence_str, "poultry")
              THEN <<"meat">> ELSE <<>>
  IN IF dairy \o meat = <<>> THEN <<"pareve">> ELSE dairy \o meat

\* has_dairy / has_meat after the loop of aggregate_product_kosher
has_tag(ingredient_results, tag) ==
  \E i \in 1..Len(ingredient_results) : tag \in Range(kosher_tags(ingredient_results[i]))

\* kosher.py aggregate_product_kosher
aggregate_product_kosher(ingredient_results) ==
  IF hits(ingredient_results, {NOT_KOSHER}) # <<>>
  THEN Verdict(NOT_KOSHER, CONF_HIGH, "Contains non-kosher ingredient(s).",
               hits(ingredient_results, {NOT_KOSHER}))
  ELSE IF has_tag(ingredient_results, "dairy") /\ has_tag(ingredient_results, "meat")
  THEN [status |-> NOT_KOSHER, confidence |-> CONF_HIGH,
        reason |-> "Contains both meat and dairy ingredients.",
        failing_ingredients |-> <<>>, reason_codes |-> <<"meat_dairy_combination">>]
  ELSE IF hits(ingredient_results, {REQUIRES_CERTIFICATION}) # <<>>
  THEN Verdict(REQUIRES_CERTIFICATION, CONF_LOW,
               "Contains ingredient(s) requiring kosher certification verification.",
               hits(ingredient_results, {REQUIRES_CERTIFICATION}))
  ELSE Verdict(KOSHER_CONFIRMED, CONF_MED, "All detected ingredients appear kosher.", <<>>)

\* diets.py aggregate_diet_results
aggregate_diet_results(ingredient_results, diet_name) ==
  IF hits(ingredient_results, {NOT_COMPLIANT}) # <<>>
  THEN Verdict(NOT_COMPLIANT, CONF_HIGH, "Contains non-" \o diet_name \o " ingredient(s).",
               hits(ingredient_results, {NOT_COMPLIANT}))
  ELSE IF hits(ingredient_results, {UNCERTAIN}) # <<>>
  THEN Verdict(UNCERTAIN, CONF_LOW,
               "Contains ingredient(s) with uncertain " \o diet_name \o " status.",
               hits(ingredient_results, {UNCERTAIN}))
  ELSE Verdict(COMPLIANT, CONF_HIGH, "All ingredients appear " \o diet_name \o "-compliant.", <<>>)

(***************************************************************************)
(* backend/services/allergens.py                                           *)
(***************************************************************************)

ALLERGENS_CONFIG ==
  [peanuts |->
     [display |-> "Peanuts",
      terms |-> <<"peanut", "peanuts", "groundnut", "groundnuts", "arachis",
                 "cacahuete", "cacahuète", "erdnuss">>],
   tree_nuts |->
     [display |-> "Tree Nuts",
      terms |-> <<"almond", "almonds", "cashew", "cashews", "walnut", "walnuts",
                 "pecan", "pecans", "pistachio", "pistachios", "hazelnut", "hazelnuts",
                 "macadamia", "brazil nut", "chestnut", "chestnuts", "pine nut",
                 "pine nuts", "tree nut", "tree nuts">>],
   milk |->
     [display |-> "Milk",
      terms |-> <<"milk", "dairy", "lactose", "casein", "whey", "cream", "butter",
                 "cheese", "yogurt", "lactalbumin", "lactoglobulin", "ghee", "leche",
                 "lait", "milch", "latte">>],
   eggs |->
     [display |-> "Eggs",
      terms |-> <<"egg", "eggs", "albumin", "albumen", "globulin", "lysozyme",
                 "mayonnaise", "meringue", "ovalbumin", "ovomucin", "ovovitellin",
                 "huevo", "oeuf", "ei">>],
   fish |->
     [display |-> "Fish",
      terms |-> <<"fish", "cod", "salmon", "tuna", "anchovy", "anchovies", "sardine",
                 "sardines", "mackerel", "herring", "bass", "trout", "tilapia",
                 "haddock", "pollock", "fish sauce", "fish oil", "omega-3", "pescado",
                 "poisson", "fisch">>],
   shellfish |->
     [display |-> "Shellfish",
      terms |-> <<"shellfish", "shrimp", "prawn", "prawns", "lobster", "crab",
                 "crayfish", "clam", "clams", "mussel", "mussels", "oyster", "oysters",
                 "scallop", "scallops", "squid", "calamari", "octopus", "crustacean",
                 "crustaceans">>],
   soy |->
     [display |-> "Soy",
      terms |-> <<"soy", "soya", "soybean", "soybeans", "edamame", "tofu", "tempeh",
                 "miso", "soy sauce", "soy lecithin", "soja">>],
   wheat |->
     [display |-> "Wheat",
      terms |-> <<"wheat", "flour", "bread", "pasta", "semolina", "durum", "spelt",
                 "kamut", "farina", "couscous", "bulgur", "seitan", "gluten", "trigo",
                 "blé", "weizen">>],
   sesame |->
     [display |-> "Sesame",
      terms |-> <<"sesame", "sesame seed", "sesame seeds", "sesame oil", "tahini",
                 "halvah", "hummus", "sésamo", "sésame", "sesam">>],
   mustard |->
     [display |-> "Mustard",
      terms |-> <<"mustard", "mustard seed", "mustard seeds", "moutarde", "senf",
                 "mostaza">>],
   celery |->
     [display |-> "Celery",
      terms |-> <<"celery", "celeriac", "céleri", "sellerie", "apio">>],
   sulfites |->
     [display |-> "Sulfites",
      terms |-> <<"sulfite", "sulfites", "sulphite", "sulphites", "sulfur dioxide",
                 "sulphur dioxide", "sodium sulfite", "sodium bisulfite",
                 "sodium metabisulfite", "potassium bisulfite",
                 "potassium metabisulfite", "e220", "e221", "e222", "e223", "e224",
                 "e225", "e226", "e227", "e228">>]]

\* str.title() of an allergen name written in ASCII letters: a letter is
\* upper-cased after a character that is not a letter, lower-cased after one
RECURSIVE title(_, _)
title(s, after_letter) ==
  IF s = "" THEN ""
  ELSE LET c == lower(Char(s, 1))
           up == IF c \in AsciiLetters THEN Char(UpperCase, find(LowerCase, c) + 1) ELSE c
       IN (IF after_letter THEN c ELSE up)
            \o title(SubSeq(s, 2, Len(s)), c \in AsciiLetters \cup AccentedLetters)

\* One iteration of the loop of check_allergy: what it returns for this
\* allergen, None when the loop goes on
check_one_allergen(text_lower, allergen) ==
  IF strip(lower(allergen)) \in DOMAIN ALLERGENS_CONFIG
  THEN IF any_word_in_text(text_lower, ALLERGENS_CONFIG[strip(lower(allergen))].terms)
       THEN ALLERGENS_CONFIG[strip(lower(allergen))].display ELSE None
  ELSE IF word_in_text(text_lower, strip(lower(allergen))) THEN title(allergen, FALSE) ELSE None

\* allergens.py check_allergy
check_allergy(text, user_allergens) ==
  IF text = "" \/ user_allergens = <<>> THEN None
  ELSE LET found == {i \in 1..Len(user_allergens) :
                       check_one_allergen(normalize_text(text), user_allergens[i]) # None}
       IN IF found = {} THEN None
          ELSE check_one_allergen(normalize_text(text), user_allergens[FirstIndex(found)])

(***************************************************************************)
(* Regular expressions of the `re` module, as syntax trees.  Ends(r, t, p) *)
(* is the set of offsets at which a match of r starting at offset p of t   *)
(* can end, so re.search(r, t) succeeds iff some Ends(r, t, p) is not      *)
(* empty.                                                                  *)
(***************************************************************************)

Lit(s) == [k |-> "lit", s |-> s]

\* [chars] when in is TRUE, [^chars] when it is FALSE
Set(chars, in) == [k |-> "set", chars |-> chars, in |-> in]

Cat(parts) == [k |-> "cat", parts |-> parts]

Alt(parts) == [k |-> "alt", parts |-> parts]

\* r{min,max}; max = -1 for no upper limit
Rep(r, min, max) == [k |-> "rep", r |-> r, min |-> min, max |-> max]

\* \b, ^ and $
Anchor(which) == [k |-> which]

RECURSIVE Ends(_, _, _)
RECURSIVE EndsCat(_, _, _, _)
RECURSIVE EndsRep(_, _, _, _, _)

Ends(r, t, p) ==
  CASE r.k = "lit" ->
         IF p + Len(r.s) <= Len(t) /\ SubSeq(t, p + 1, p + Len(r.s)) = r.s
         THEN {p + Len(r.s)} ELSE {}
    [] r.k = "set" ->
         IF p < Len(t) /\ ((Char(t, p + 1) \in r.chars) <=> r.in) THEN {p + 1} ELSE {}
    [] r.k = "cat" -> EndsCat(r.parts, t, {p}, 1)
    [] r.k = "alt" -> UNION {Ends(r.parts[j], t, p) : j \in DOMAIN r.parts}
    [] r.k = "rep" /\ r.r.k = "set" ->
         {q \in (p + r.min)..(IF r.max < 0 \/ p + r.max > Len(t) THEN Len(t) ELSE p + r.max) :
            \A i \in (p + 1)..q : (Char(t, i) \in r.r.chars) <=> r.r.in}
    [] r.k = "rep" /\ r.r.k # "set" -> EndsRep(r.r, t, {p}, r.min, r.max)
    [] r.k = "b" -> IF WordBoundary(t, p) THEN {p} ELSE {}
    [] r.k = "^" -> IF p = 0 THEN {p} ELSE {}
    [] r.k = "$" -> IF p = Len(t) THEN {p} ELSE {}

\* The parts from the j-th on, started at any offset of from
EndsCat(parts, t, from, j) ==
  IF j > Len(parts) \/ from = {} THEN from
  ELSE EndsCat(parts, t, UNION {Ends(parts[j], t, p) : p \in from}, j + 1)

\* Between min and max further repetitions of r, started at any offset of from
EndsRep(r, t, from, min, max) ==
  IF from = {} \/ max = 0 THEN from
  ELSE IF min > 0
       THEN EndsRep(r, t, UNION {Ends(r, t, p) : p \in from}, min - 1,
                    IF max < 0 THEN max ELSE max - 1)
       ELSE from \cup EndsRep(r, t, UNION {Ends(r, t, p) : p \in from} \ from, 0,
                              IF max < 0 THEN max ELSE max - 1)

\* re.search(r, t) is not None
search(r, t) == \E p \in 0..Len(t) : Ends(r, t, p) # {}

(***************************************************************************)
(* app.py: deterministic segmentation of OCR text into zones               *)
(***************************************************************************)

\* The Polish header written with an l-stroke, a character outside the character
\* set of TLA+ strings, is left out: it matches only texts that contain it
INGREDIENT_HEADERS ==
  <<"ingredientes:", "ingredientes", "ingredientes :", "ingredients:", "ingredients",
    "ingredients :", "ingrédients:", "ingrédients", "ingredients:", "ingredients :",
    "zutaten:", "zutaten", "zutaten :", "ingredienti:", "ingredienti", "ingredienti :",
    "ingredientes:", "ingredientes", "ingrediënten:", "ingredienten:",
    "skladniki:", "ingredlentes:", "ingredlentes", "lngredientes:", "lngredients:">>

ALLERGEN_ADVISORY_HEADERS ==
  <<"puede contener", "puede contener:", "puede contener trazas", "contiene:",
    "contiene", "alérgenos:", "may contain", "may contain:", "may contain traces",
    "contains:", "contains", "allergens:", "allergy advice:", "for allergens",
    "for allergens,", "allergen information", "peut contenir", "peut contenir:",
    "peut contenir des traces", "contient:", "contient", "allergènes:", "kann enthalten",
    "kann enthalten:", "kann spuren enthalten", "enthält:", "enthält", "allergene:",
    "può contenere", "puo contenere", "può contenere:", "contiene:", "contiene",
    "allergeni:", "pode conter", "pode conter:", "puedecontener", "maycontain",
    "peutcontenir", "kannenthalten">>

COMMON_INGREDIENT_TERMS ==
  <<"sugar", "azúcar", "azucar", "sucre", "zucker", "zucchero", "glucose", "glucosa",
    "fructose", "fructosa", "oil", "aceite", "huile", "öl", "olio", "butter",
    "mantequilla", "beurre", "manteca", "fat", "grasa", "graisse", "fett", "cocoa",
    "cacao", "kakao", "chocolate", "milk", "leche", "lait", "milch", "latte", "cream",
    "crema", "crème", "lactose", "lactosa", "flour", "harina", "farine", "mehl", "wheat",
    "trigo", "blé", "weizen", "starch", "almidón", "amidon", "egg", "huevo", "oeuf",
    "ei", "uovo", "lecithin", "lecitina", "lécithine", "lezithin", "emulsifier",
    "emulsionante", "émulsifiant", "emulgator", "salt", "sal", "sel", "salz", "vanilla",
    "vainilla", "vanille", "aroma", "flavor", "flavour", "e322", "e471", "e500", "e330">>


NON_INGREDIENT_PATTERNS ==
  LET wb == Anchor("b")
      dg == Set(Digits, TRUE)
      ws == Set(WhiteSpace, TRUE)
      star(r) == Rep(r, 0, -1)
      plus(r) == Rep(r, 1, -1)
      opt(r) == Rep(r, 0, 1)
      words(w) == Alt([j \in DOMAIN w |-> Lit(w[j])])
      percent_of(word) ==
        Cat(<<wb, Lit(word), star(ws), opt(Lit(":")), star(ws), plus(dg), star(ws), Lit("%")>>)
      date_sep == Set({"/", ".", "-"}, TRUE)
  IN <<Cat(<<wb, plus(dg), star(ws), Lit("%"), star(ws),
             opt(words(<<"mínimo", "minimo", "minimum", "min",
                         "máximo", "maximo", "maximum", "max">>)), wb>>),
       percent_of("cacao"),
       percent_of("grasa"),
       percent_of("fat"),
       Cat(<<wb, plus(dg), star(ws), words(<<"g", "kg", "ml", "l", "oz", "lb">>), wb>>),
       Cat(<<wb, Rep(dg, 8, 13), wb>>),
       Cat(<<wb, words(<<"ean", "upc", "gtin">>), star(ws), opt(Lit(":")), star(ws), plus(dg)>>),
       Cat(<<wb, Rep(dg, 1, 2), date_sep, Rep(dg, 1, 2), date_sep, Rep(dg, 2, 4), wb>>),
       Cat(<<wb, words(<<"best before", "consumir antes", "à consommer avant",
                         "mindestens haltbar">>), wb>>),
       Cat(<<wb, words(<<"lot", "lote", "batch">>), star(ws), opt(Lit(":")), star(ws),
             plus(Set(AsciiLetters \cup Digits, TRUE)), wb>>),
       Cat(<<wb, words(<<"conservar", "store", "conserver", "aufbewahren", "keep">>), plus(ws),
             words(<<"en", "in", "au", "im", "at">>), wb>>),
       Cat(<<wb, words(<<"nutrition", "información nutricional", "valeurs nutritionnelles",
                         "nährwerte">>), wb>>),
       Cat(<<wb, words(<<"calories", "calorías", "kcal", "kj">>), wb>>),
       Cat(<<wb, words(<<"made in", "fabricado en", "fabriqué", "hergestellt in", "hecho en">>),
             wb>>),
       Cat(<<wb, words(<<"product of", "producto de", "produit de">>), wb>>)>>

\* The accent_map loop of normalize_for_matching
RECURSIVE unaccent(_)
unaccent(s) ==
  IF Len(s) <= 1
  THEN (IF s \in AccentedLetters THEN Char(accent_map.plain, find(accent_map.accented, s) + 1)
        ELSE s)
  ELSE unaccent(SubSeq(s, 1, Len(s) \div 2)) \o unaccent(SubSeq(s, Len(s) \div 2 + 1, Len(s)))

normalize_for_matching(text) ==
  IF text = "" THEN "" ELSE strip(collapse_whitespace(unaccent(lower(text))))

\* s.replace(" ", "")
RECURSIVE remove_spaces(_)
remove_spaces(s) ==
  IF Len(s) <= 1 THEN (IF s = " " THEN "" ELSE s)
  ELSE remove_spaces(SubSeq(s, 1, Len(s) \div 2))
         \o remove_spaces(SubSeq(s, Len(s) \div 2 + 1, Len(s)))

\* One iteration of the loop of find_header_position: the position found for
\* this header (exact, then normalized, then merged-token match), -1 if none
header_position(text_lower, text_normalized, text_merged, text_len, header) ==
  IF find(text_lower, header) # -1 THEN find(text_lower, header)
  ELSE IF find(text_normalized, normalize_for_matching(header)) # -1
       THEN find(text_normalized, normalize_for_matching(header))
  ELSE IF Len(remove_spaces(header)) >= 8 /\ find(text_merged, remove_spaces(header)) # -1
       THEN (find(text_merged, remove_spaces(header)) * text_len)
              \div (IF Len(text_merged) > 1 THEN Len(text_merged) ELSE 1)
  ELSE -1

\* best_pos and best_header after the loop; found holds a pair <<pos, j>> for
\* every header j with a position: the least position wins and, among equal
\* positions, the header that comes first in the list
best_header(headers, found) ==
  IF found = {} THEN [pos |-> -1, header |-> ""]
  ELSE LET best == CHOOSE h \in found :
                     \A g \in found : h[1] < g[1] \/ (h[1] = g[1] /\ h[2] <= g[2])
       IN [pos |-> best[1], header |-> headers[best[2]]]

header_positions(text_lower, text_normalized, text_merged, text_len, headers) ==
  {h \in {<<header_position(text_lower, text_normalized, text_merged, text_len, headers[j]), j>> :
            j \in DOMAIN headers} : h[1] # -1}

find_header_position(text, headers) ==
  best_header(headers,
              header_positions(lower(text), normalize_for_matching(text),
                               remove_spaces(normalize_for_matching(text)), Len(text), headers))

is_non_ingredient_line(line) ==
  LET line_lower == strip(lower(line))
  IN \/ Len(line_lower) < 2
     \/ \E j \in DOMAIN NON_INGREDIENT_PATTERNS : search(NON_INGREDIENT_PATTERNS[j], line_lower)
     \/ \A i \in 1..Len(line_lower) : Char(line_lower, i) \in Digits \cup WhiteSpace \cup {".", ","}

\* any(h in text_lower for h in words)
contains_any(text_lower, words) == \E j \in DOMAIN words : Contains(text_lower, words[j])

detect_language_from_headers(text) ==
  IF contains_any(lower(text), <<"ingredientes", "puede contener", "contiene">>) THEN "es"
  ELSE IF contains_any(lower(text), <<"ingrédients", "peut contenir", "contient">>) THEN "fr"
  ELSE IF contains_any(lower(text), <<"zutaten", "kann enthalten", "enthält">>) THEN "de"
  ELSE IF contains_any(lower(text), <<"ingredienti", "può contenere", "contiene">>) THEN "it"
  ELSE IF contains_any(lower(text), <<"ingredients", "may contain", "contains">>) THEN "en"
  ELSE None

\* The shape test of attempt_fallback_ingredient_extraction
is_likely_ingredients(raw_text) ==
  LET ingredient_term_count ==
        Cardinality({j \in DOMAIN COMMON_INGREDIENT_TERMS :
                       Contains(lower(raw_text), COMMON_INGREDIENT_TERMS[j])})
      count(c) == Cardinality({i \in 1..Len(raw_text) : Char(raw_text, i) = c})
      word_count ==
        Cardinality({i \in 1..Len(raw_text) :
                       /\ Char(raw_text, i) \notin WhiteSpace
                       /\ i = 1 \/ Char(raw_text, i - 1) \in WhiteSpace})
  IN \/ ingredient_term_count >= 2 /\ count(",") >= 2 /\ word_count >= 5
     \/ ingredient_term_count >= 2 /\ count(";") >= 2

\* s[lo:hi] for offsets lo, hi >= 0
Slice(s, lo, hi) ==
  IF lo >= hi \/ lo >= Len(s) THEN "" ELSE SubSeq(s, lo + 1, IF hi > Len(s) THEN Len(s) ELSE hi)

\* Where s[lo:hi].strip() lies in s
strip_slice(s, lo, hi) ==
  LET inside == {i \in (lo + 1)..(IF hi > Len(s) THEN Len(s) ELSE hi) : Char(s, i) \notin WhiteSpace}
  IN IF inside = {} THEN [lo |-> lo, hi |-> lo]
     ELSE [lo |-> (CHOOSE i \in inside : \A j \in inside : i <= j) - 1,
           hi |-> CHOOSE i \in inside : \A j \in inside : i >= j]

\* remove_product_name_prefix returns text[start:], stripped when strip holds
product_name_prefix(text) ==
  LET percent_colon ==
        Cat(<<Rep(Set(Digits, TRUE), 1, -1), Rep(Set(WhiteSpace, TRUE), 0, -1), Lit("%"),
              Rep(Set({":"}, FALSE), 0, -1), Lit(":"), Rep(Set(WhiteSpace, TRUE), 0, -1)>>)
      starts == {p \in 0..Len(text) : Ends(percent_colon, text, p) # {}}
      ends == Ends(percent_colon, text, CHOOSE p \in starts : \A q \in starts : p <= q)
      match_end == CHOOSE e \in ends : \A f \in ends : e >= f
      first_comma == find(text, ",")
      term_pos(j) == find(lower(text), COMMON_INGREDIENT_TERMS[j])
      usable == {j \in DOMAIN COMMON_INGREDIENT_TERMS : term_pos(j) # -1 /\ term_pos(j) < 100}
      pos == term_pos(CHOOSE j \in usable : \A h \in usable : j <= h)
      separators == {i \in 1..pos : Char(text, i) \in {",", ";", ":"}}
      start_pos == IF separators = {} THEN 0
                   ELSE (CHOOSE i \in separators : \A j \in separators : i >= j) + 1
  IN IF /\ starts # {}
        /\ contains_any(lower(Slice(text, match_end, Len(text))), SubSeq(COMMON_INGREDIENT_TERMS, 1, 20))
        /\ Len(text) - match_end > 20
     THEN [start |-> match_end, strip |-> FALSE]
     ELSE IF /\ first_comma > 0 /\ first_comma < 50
             /\ Contains(Slice(text, 0, first_comma), "%")
             /\ contains_any(lower(Slice(text, first_comma, Len(text))),
                             SubSeq(COMMON_INGREDIENT_TERMS, 1, 20))
             /\ usable # {}
     THEN [start |-> start_pos, strip |-> TRUE]
     ELSE [start |-> 0, strip |-> FALSE]

\* Where the text returned by remove_product_name_prefix(raw_text[zone.lo:zone.hi])
\* lies in raw_text
without_prefix(raw_text, zone, prefix) ==
  IF prefix.strip THEN strip_slice(raw_text, zone.lo + prefix.start, zone.hi)
  ELSE [lo |-> zone.lo + prefix.start, hi |-> zone.hi]

\* Where the text returned by attempt_fallback_ingredient_extraction lies in
\* raw_text; an empty slice when the function returns ""
fallback_slice(raw_text, allergen_pos) ==
  LET ingredient_zone == IF allergen_pos # -1 /\ allergen_pos > 10
                         THEN strip_slice(raw_text, 0, allergen_pos)
                         ELSE strip_slice(raw_text, 0, Len(raw_text))
  IN IF ~is_likely_ingredients(raw_text) THEN [lo |-> 0, hi |-> 0]
     ELSE without_prefix(raw_text, ingredient_zone,
                         product_name_prefix(Slice(raw_text, ingredient_zone.lo, ingredient_zone.hi)))

attempt_fallback_ingredient_extraction(raw_text, allergen_pos) ==
  Slice(raw_text, fallback_slice(raw_text, allergen_pos).lo, fallback_slice(raw_text, allergen_pos).hi)

\* text.split('\n')
RECURSIVE split_lines(_)
split_lines(text) ==
  IF find(text, "\n") = -1 THEN <<text>>
  ELSE <<Slice(text, 0, find(text, "\n"))>> \o split_lines(Slice(text, find(text, "\n") + 1, Len(text)))

\* cleaned_lines of clean_ingredient_zone
RECURSIVE cleaned_lines(_)
cleaned_lines(lines) ==
  IF lines = <<>> THEN <<>>
  ELSE (IF strip(Head(lines)) = "" \/ is_non_ingredient_line(strip(Head(lines)))
        THEN <<>> ELSE <<strip(Head(lines))>>) \o cleaned_lines(Tail(lines))

\* re.sub(r'[,;]\s*[,;]', ',', s)
RECURSIVE fix_double_commas(_)
fix_double_commas(s) ==
  LET matches == {i \in 1..Len(s) :
                    /\ Char(s, i) \in {",", ";"}
                    /\ lstrip(SubSeq(s, i + 1, Len(s))) # ""
                    /\ Char(lstrip(SubSeq(s, i + 1, Len(s))), 1) \in {",", ";"}}
      first == CHOOSE i \in matches : \A j \in matches : i <= j
      rest == lstrip(SubSeq(s, first + 1, Len(s)))
  IN IF matches = {} THEN s
     ELSE SubSeq(s, 1, first - 1) \o "," \o fix_double_commas(SubSeq(rest, 2, Len(rest)))

clean_ingredient_zone(text) ==
  IF text = "" THEN ""
  ELSE strip(fix_double_commas(collapse_whitespace(join_with_space(cleaned_lines(split_lines(text))))))

\* The OCRZoneResult returned by segment_ocr_text.  ing and allergen are the
\* positions and headers that parse_notes reports; header, ingredients and
\* advisory are the slices of raw_text the three zones were cut from.
OCRZoneResult(header_zone, ingredient_zone, allergen_advisory_zone, detected_language, parse_status, ing, allergen, header, ingredients, advisory) ==
  [header_zone |-> header_zone, ingredient_zone |-> ingredient_zone,
   allergen_advisory_zone |-> allergen_advisory_zone, detected_language |-> detected_language,
   parse_status |-> parse_status, ing |-> ing, allergen |-> allergen,
   slices |-> [header |-> header, ingredients |-> ingredients, advisory |-> advisory]]

NoSlice == [lo |-> 0, hi |-> 0]

\* CASE 1 of segment_ocr_text: no ingredient header found
segment_without_header(raw_text, lang, ing, allergen, fallback) ==
  LET advisory == IF allergen.pos # -1 THEN strip_slice(raw_text, allergen.pos, Len(raw_text))
                  ELSE NoSlice
      header == IF allergen.pos # -1 THEN strip_slice(raw_text, 0, allergen.pos)
                ELSE [lo |-> 0, hi |-> Len(raw_text)]
  IN IF Slice(raw_text, fallback.lo, fallback.hi) # ""
     THEN OCRZoneResult("", Slice(raw_text, fallback.lo, fallback.hi),
                        Slice(raw_text, advisory.lo, advisory.hi), lang, "UNVERIFIED",
                        ing, allergen, NoSlice, fallback, advisory)
     ELSE OCRZoneResult(Slice(raw_text, header.lo, header.hi), "",
                        Slice(raw_text, advisory.lo, advisory.hi), lang, "NO_INGREDIENTS",
                        ing, allergen, header, NoSlice, advisory)

\* ing_start after the loop that skips colons and white space
RECURSIVE skip_separators(_, _)
skip_separators(raw_text, ing_start) ==
  IF ing_start < Len(raw_text) /\ Char(raw_text, ing_start + 1) \in {":", " ", "\t", "\n"}
  THEN skip_separators(raw_text, ing_start + 1) ELSE ing_start

\* A mutation of segment_with_header that reports OK whatever is left of the
\* ingredient zone after cleaning
segment_with_header_always_ok(raw_text, lang, ing, allergen, ing_start) ==
  LET header == strip_slice(raw_text, 0, ing.pos)
      cut == allergen.pos # -1 /\ allergen.pos > ing_start
      ingredients == strip_slice(raw_text, ing_start, IF cut THEN allergen.pos ELSE Len(raw_text))
      advisory == IF cut THEN strip_slice(raw_text, allergen.pos, Len(raw_text)) ELSE NoSlice
      ingredient_zone == clean_ingredient_zone(Slice(raw_text, ingredients.lo, ingredients.hi))
  IN OCRZoneResult(Slice(raw_text, header.lo, header.hi), ingredient_zone,
                   Slice(raw_text, advisory.lo, advisory.hi), lang,
                   "OK",
                   ing, allergen, header, ingredients, advisory)

\* CASE 2 of segment_ocr_text: ingredient header found
segment_with_header(raw_text, lang, ing, allergen, ing_start) ==
  LET header == strip_slice(raw_text, 0, ing.pos)
      cut == allergen.pos # -1 /\ allergen.pos > ing_start
      ingredients == strip_slice(raw_text, ing_start, IF cut THEN allergen.pos ELSE Len(raw_text))
      advisory == IF cut THEN strip_slice(raw_text, allergen.pos, Len(raw_text)) ELSE NoSlice
      ingredient_zone == clean_ingredient_zone(Slice(raw_text, ingredients.lo, ingredients.hi))
  IN OCRZoneResult(Slice(raw_text, header.lo, header.hi), ingredient_zone,
                   Slice(raw_text, advisory.lo, advisory.hi), lang,
                   IF Len(strip(ingredient_zone)) < 5 THEN "UNVERIFIED" ELSE "OK",
                   ing, allergen, header, ingredients, advisory)

\* segment_ocr_text once the language and the two headers have been looked up
segment_zones(raw_text, lang, ing, allergen) ==
  IF ing.pos = -1
  THEN segment_without_header(raw_text, lang, ing, allergen, fallback_slice(raw_text, allergen.pos))
  ELSE segment_with_header(raw_text, lang, ing, allergen,
                           skip_separators(raw_text, ing.pos + Len(ing.header)))

segment_ocr_text(raw_text) ==
  IF raw_text = "" \/ Len(strip(raw_text)) < 5
  THEN OCRZoneResult("", "", "", None, "NO_INGREDIENTS", [pos |-> -1, header |-> ""],
                     [pos |-> -1, header |-> ""], NoSlice, NoSlice, NoSlice)
  ELSE segment_zones(raw_text, detect_language_from_headers(raw_text),
                     find_header_position(raw_text, INGREDIENT_HEADERS),
                     find_header_position(raw_text, ALLERGEN_ADVISORY_HEADERS))

(***************************************************************************)
(* backend/services/kosher.py: the ingredient-level kosher evaluation.     *)
(***************************************************************************)

FORBIDDEN_LAND_ANIMALS ==
  <<"pork", "pig", "swine", "bacon", "ham", "lard", "porcine", "rabbit", "hare", "horse",
    "donkey", "camel">>

FORBIDDEN_SEAFOOD ==
  <<"shellfish", "shrimp", "prawn", "lobster", "crab", "crayfish", "clam", "mussel", "oyster",
    "scallop", "squid", "octopus", "catfish", "shark", "eel", "sturgeon", "swordfish">>

INSECT_DERIVED ==
  <<"carmine", "cochineal", "e120", "natural red 4", "shellac", "e904", "lac">>

BLOOD_PRODUCTS ==
  <<"blood", "blood meal", "blood plasma", "black pudding">>

GRAPE_PRODUCTS ==
  <<"wine", "grape juice", "wine vinegar", "champagne", "brandy", "cognac">>

MEAT_DAIRY_MIX ==
  <<"cheeseburger", "meat and cheese", "bacon cheese">>

KOSHER_CERTIFICATIONS ==
  <<"ou", "ok", "star-k", "kof-k", "crc", "scroll k", "triangle k", "kosher certified",
    "certified kosher", "pareve", "parve", "dairy", "meat", "chalav yisrael">>

KOSHER_SAFE_INGREDIENTS ==
  <<"sugar", "cane sugar", "beet sugar", "brown sugar", "powdered sugar", "honey",
    "maple syrup", "agave", "stevia", "sucralose", "aspartame", "glucose", "fructose",
    "dextrose", "maltodextrin", "corn syrup", "flour", "wheat flour", "rice", "corn", "oats",
    "barley", "rye", "cornstarch", "corn starch", "potato starch", "tapioca", "starch",
    "vegetable oil", "sunflower oil", "canola oil", "olive oil", "palm oil", "coconut oil",
    "soybean oil", "corn oil", "rapeseed oil", "safflower oil", "tomato", "onion", "garlic",
    "carrot", "potato", "apple", "orange", "lemon", "lime", "banana", "berry", "berries",
    "fruit", "vegetable", "almond", "peanut", "walnut", "cashew", "pistachio", "sesame",
    "sunflower seed", "pumpkin seed", "chia", "flax", "hemp seed", "soy", "soybean", "chickpea",
    "lentil", "bean", "pea", "salt", "pepper", "cinnamon", "vanilla", "paprika", "turmeric",
    "cumin", "oregano", "basil", "thyme", "rosemary", "parsley", "ginger", "nutmeg", "clove",
    "cardamom", "coriander", "citric acid", "ascorbic acid", "vitamin c", "vitamin e",
    "tocopherol", "pectin", "agar", "carrageenan", "guar gum", "xanthan gum", "locust bean gum",
    "soy lecithin", "sunflower lecithin", "lecithin", "natural flavor", "natural flavoring",
    "artificial flavor", "color", "caramel color", "annatto", "beta carotene", "turmeric color",
    "baking soda", "baking powder", "yeast", "sodium bicarbonate", "calcium carbonate",
    "potassium sorbate", "sodium benzoate", "water", "carbonated water", "sparkling water",
    "cocoa", "cocoa powder", "cocoa butter", "chocolate", "coffee", "vinegar",
    "apple cider vinegar", "white vinegar", "rice vinegar", "distilled vinegar", "malt vinegar">>

\* The items of the dict, in the order in which the loop visits them
SOURCE_DEPENDENT_KOSHER ==
  <<[ing_type |-> "gelatin",
     terms |-> <<"gelatin", "gelatine">>,
     kosher_terms |-> <<"fish gelatin", "kosher gelatin">>,
     not_kosher_terms |-> <<"pork gelatin", "porcine gelatin">>],
    [ing_type |-> "rennet",
     terms |-> <<"rennet", "enzyme">>,
     kosher_terms |-> <<"microbial rennet", "vegetable rennet", "microbial enzyme">>,
     not_kosher_terms |-> <<"animal rennet", "calf rennet">>],
    [ing_type |-> "glycerin",
     terms |-> <<"glycerin", "glycerol", "e422">>,
     kosher_terms |-> <<"vegetable glycerin", "plant glycerin">>,
     not_kosher_terms |-> <<"animal glycerin">>]>>

\* `ingredient_text or ""`
or_empty(text) == IF text = None THEN "" ELSE text

has_kosher_certification(text) == any_word_in_text(normalize_text(text), KOSHER_CERTIFICATIONS)

is_kosher_safe_ingredient(text) == any_word_in_text(normalize_text(text), KOSHER_SAFE_INGREDIENTS)

\* kosher.py 215-255: 7) the loop over SOURCE_DEPENDENT_KOSHER from item i on;
\* it returns a result at once or leaves the findings it appended
RECURSIVE source_dependent_loop(_, _, _, _, _)
source_dependent_loop(ing_raw, ing, has_cert, i, findings) ==
  IF i > Len(SOURCE_DEPENDENT_KOSHER) THEN [returned |-> FALSE, findings |-> findings]
  ELSE LET config == SOURCE_DEPENDENT_KOSHER[i]
           ing_type == config.ing_type
           go_on(code, ev) ==
             source_dependent_loop(ing_raw, ing, has_cert, i + 1,
                                   Append(findings, Finding(ing_type \o code, ev)))
       IN IF ~any_word_in_text(ing, config.terms)
          THEN source_dependent_loop(ing_raw, ing, has_cert, i + 1, findings)
          ELSE IF any_word_in_text(ing, config.kosher_terms)
          THEN go_on("_kosher", "Kosher " \o ing_type \o " source confirmed")
          ELSE IF any_word_in_text(ing, config.not_kosher_terms)
          THEN Return(HalalResult(ing_raw, NOT_KOSHER, CONF_HIGH, <<ing_type \o "_not_kosher">>,
                                  <<"Non-kosher " \o ing_type \o " source">>))
          ELSE IF is_kosher_safe_ingredient(ing)
          THEN go_on("_plant_source_likely", title(ing_type, FALSE) \o " appears to be plant-derived")
          ELSE IF has_cert
          THEN go_on("_certified", title(ing_type, FALSE) \o " with kosher certification")
          ELSE IF ing_type = "gelatin"
          THEN Return(HalalResult(ing_raw, REQUIRES_CERTIFICATION, CONF_LOW,
                                  <<ing_type \o "_source_unknown">>,
                                  <<title(ing_type, FALSE) \o " source unknown - may be animal-derived">>))
          ELSE go_on("_likely_plant",
                     title(ing_type, FALSE) \o " (commonly plant-derived in modern food)")

\* kosher.py 257-316: 8) the dairy and meat indicators and the final status,
\* findings being what steps 5 and 7 appended
final_kosher_result(ing_raw, ing, has_cert, findings) ==
  LET is_dairy == any_word_in_text(ing, <<"milk", "cream", "cheese", "butter", "whey", "casein",
                                          "lactose">>)
      is_meat == any_word_in_text(ing, <<"beef", "chicken", "lamb", "turkey", "meat", "poultry">>)
      dairy == IF is_dairy
               THEN <<Finding("dairy_ingredient", "Dairy ingredient (affects meat/dairy separation)")>>
               ELSE <<>>
      meat == IF ~is_meat THEN <<>>
              ELSE IF has_cert
              THEN <<Finding("meat_kosher_certified", "Meat ingredient with kosher certification")>>
              ELSE <<Finding("meat_requires_certification",
                             "Meat ingredient requires kosher slaughter verification")>>
      reasons == reason_codes_of(findings \o dairy \o meat)
      evidence == evidence_of(findings \o dairy \o meat)
  IN IF is_meat /\ ~has_cert
     THEN HalalResult(ing_raw, REQUIRES_CERTIFICATION, CONF_MED, reasons, evidence)
     ELSE IF has_cert
     THEN HalalResult(ing_raw, KOSHER_CONFIRMED, CONF_HIGH,
                      IF reasons # <<>> THEN reasons ELSE <<"kosher_certified">>,
                      IF evidence # <<>> THEN evidence ELSE <<"Kosher certification detected">>)
     ELSE IF reasons # <<>>
     THEN HalalResult(ing_raw, KOSHER_CONFIRMED, CONF_MED, dedupe(reasons), dedupe(evidence))
     ELSE IF is_kosher_safe_ingredient(ing)
     THEN HalalResult(ing_raw, KOSHER_CONFIRMED, CONF_HIGH, <<"plant_based_kosher">>,
                      <<"Plant-based ingredient, inherently kosher">>)
     ELSE HalalResult(ing_raw, KOSHER_CONFIRMED, CONF_MED, <<"no_kosher_concerns">>,
                      <<"No kosher concerns detected">>)

\* kosher.py evaluate_kosher_strict; the result is a dict of the same keys as
\* the one of evaluate_halal_strict
evaluate_kosher_strict(ingredient_text) ==
  LET ing_raw == or_empty(ingredient_text)
      ing == normalize_text(ing_raw)
      has_cert == has_kosher_certification(ing)
      \* 5) a certified grape product goes on to the loop of step 7
      loop == source_dependent_loop(ing_raw, ing, has_cert, 1,
                IF any_word_in_text(ing, GRAPE_PRODUCTS)
                THEN <<Finding("grape_product_certified", "Grape product with kosher certification")>>
                ELSE <<>>)
      forbidden(code, ev) == HalalResult(ing_raw, NOT_KOSHER, CONF_HIGH, <<code>>, <<ev>>)
  IN IF any_word_in_text(ing, FORBIDDEN_LAND_ANIMALS)
     THEN forbidden("forbidden_land_animal", "Contains forbidden land animal (non-kosher species)")
     ELSE IF any_word_in_text(ing, FORBIDDEN_SEAFOOD)
     THEN forbidden("forbidden_seafood", "Contains forbidden seafood (no fins/scales)")
     ELSE IF any_word_in_text(ing, INSECT_DERIVED)
     THEN forbidden("insect_derived", "Contains insect-derived ingredient")
     ELSE IF any_word_in_text(ing, BLOOD_PRODUCTS)
     THEN forbidden("blood_product", "Contains blood product")
     ELSE IF any_word_in_text(ing, GRAPE_PRODUCTS) /\ ~has_cert
     THEN HalalResult(ing_raw, REQUIRES_CERTIFICATION, CONF_MED,
                      <<"grape_product_requires_supervision">>,
                      <<"Grape/wine product requires kosher supervision">>)
     ELSE IF any_word_in_text(ing, MEAT_DAIRY_MIX)
     THEN forbidden("meat_dairy_combination", "Contains meat and dairy combination")
     ELSE OrElse(loop, final_kosher_result(ing_raw, ing, has_cert, loop.findings))

(***************************************************************************)
(* backend/services/diets.py: the ingredient-level vegan, vegetarian and   *)
(* pescetarian evaluations.                                                *)
(***************************************************************************)

MEAT_INGREDIENTS ==
  <<"beef", "pork", "chicken", "turkey", "lamb", "veal", "goat", "mutton", "duck", "goose",
    "rabbit", "venison", "bison", "buffalo", "bacon", "ham", "sausage", "salami", "pepperoni",
    "prosciutto", "hot dog", "bologna", "pastrami", "corned beef", "jerky", "meat", "poultry",
    "flesh", "carcass", "lard", "tallow", "suet", "dripping", "schmaltz", "bone broth",
    "beef broth", "chicken broth", "meat broth", "bone meal", "meat extract", "meat powder">>

FISH_SEAFOOD_INGREDIENTS ==
  <<"fish", "salmon", "tuna", "cod", "tilapia", "trout", "bass", "halibut", "mackerel",
    "sardine", "anchovy", "herring", "haddock", "pollock", "catfish", "carp", "perch",
    "snapper", "grouper", "flounder", "sole", "swordfish", "mahi", "eel", "caviar", "roe",
    "shellfish", "shrimp", "prawn", "lobster", "crab", "crayfish", "crawfish", "clam", "mussel",
    "oyster", "scallop", "squid", "calamari", "octopus", "fish sauce", "fish oil", "fish paste",
    "fish stock", "dashi", "omega-3", "fish gelatin", "isinglass", "surimi", "worcestershire">>

DAIRY_INGREDIENTS ==
  <<"milk", "cream", "butter", "cheese", "yogurt", "yoghurt", "kefir", "whey", "casein",
    "lactose", "lactalbumin", "lactoglobulin", "ghee", "buttermilk", "sour cream",
    "creme fraiche", "mascarpone", "ricotta", "mozzarella", "parmesan", "cheddar", "brie",
    "feta", "ice cream", "gelato", "custard", "pudding", "milk powder", "dried milk",
    "skim milk", "whole milk", "condensed milk", "evaporated milk", "dairy", "milkfat",
    "milk fat", "milk solids">>

EGG_INGREDIENTS ==
  <<"egg", "eggs", "egg white", "egg yolk", "albumin", "albumen", "globulin", "lysozyme",
    "mayonnaise", "meringue", "aioli", "ovalbumin", "ovomucin", "ovomucoid", "ovovitellin",
    "egg powder", "dried egg", "liquid egg">>

BEE_PRODUCTS ==
  <<"honey", "bee pollen", "royal jelly", "beeswax", "propolis">>

ANIMAL_DERIVED_ADDITIVES ==
  <<"gelatin", "gelatine", "carmine", "cochineal", "e120", "natural red 4", "shellac", "e904",
    "isinglass", "rennet", "animal rennet", "bone char", "bone phosphate", "lanolin", "tallow",
    "castoreum", "civet", "musk", "ambergris", "l-cysteine">>

POSSIBLY_ANIMAL_DERIVED ==
  <<"glycerin", "glycerol", "e422", "stearic acid", "e570", "mono and diglycerides", "e471",
    "natural flavors", "natural flavoring", "vitamin d3", "cholecalciferol", "omega-3",
    "lecithin">>

VEGAN_SAFE_VERSIONS ==
  <<"vegetable glycerin", "plant glycerin", "soy lecithin", "sunflower lecithin",
    "rapeseed lecithin", "vegan", "plant-based", "dairy-free", "egg-free", "algae omega",
    "algal omega", "flaxseed omega", "agar", "agar-agar", "pectin", "carrageenan",
    "vegetable rennet", "microbial rennet", "vegan d3", "lichen d3", "plant d3">>

evaluate_vegan(ingredient_text) ==
  LET ing_raw == or_empty(ingredient_text)
      ing == normalize_text(ing_raw)
      not_vegan(code, ev) == HalalResult(ing_raw, NOT_COMPLIANT, CONF_HIGH, <<code>>, <<ev>>)
  IN IF any_word_in_text(ing, VEGAN_SAFE_VERSIONS)
     THEN HalalResult(ing_raw, COMPLIANT, CONF_HIGH, <<"explicitly_vegan">>,
                      <<"Explicitly vegan/plant-based ingredient">>)
     ELSE IF any_word_in_text(ing, MEAT_INGREDIENTS)
     THEN not_vegan("contains_meat", "Contains meat - not vegan")
     ELSE IF any_word_in_text(ing, FISH_SEAFOOD_INGREDIENTS)
     THEN not_vegan("contains_seafood", "Contains fish/seafood - not vegan")
     ELSE IF any_word_in_text(ing, DAIRY_INGREDIENTS)
     THEN not_vegan("contains_dairy", "Contains dairy - not vegan")
     ELSE IF any_word_in_text(ing, EGG_INGREDIENTS)
     THEN not_vegan("contains_egg", "Contains egg - not vegan")
     ELSE IF any_word_in_text(ing, BEE_PRODUCTS)
     THEN not_vegan("contains_bee_product", "Contains honey/bee product - not vegan")
     ELSE IF any_word_in_text(ing, ANIMAL_DERIVED_ADDITIVES)
     THEN not_vegan("animal_derived_additive", "Contains animal-derived additive")
     ELSE IF any_word_in_text(ing, POSSIBLY_ANIMAL_DERIVED)
     THEN HalalResult(ing_raw, UNCERTAIN, CONF_LOW, <<"possibly_animal_derived">>,
                      <<"May be animal-derived - source unclear">>)
     ELSE HalalResult(ing_raw, COMPLIANT, CONF_HIGH, <<"plant_based">>, <<"Plant-based ingredient">>)

evaluate_vegetarian(ingredient_text) ==
  LET ing_raw == or_empty(ingredient_text)
      ing == normalize_text(ing_raw)
      strict_animal_additives ==
        <<"gelatin", "gelatine", "carmine", "cochineal", "e120", "isinglass", "animal rennet",
          "bone char", "bone phosphate", "lard", "tallow", "suet">>
      uncertain_for_vegetarian == <<"glycerin", "glycerol", "stearic acid", "mono and diglycerides">>
      not_vegetarian(code, ev) == HalalResult(ing_raw, NOT_COMPLIANT, CONF_HIGH, <<code>>, <<ev>>)
  IN IF any_word_in_text(ing, <<"vegetarian", "vegan", "plant-based">>)
     THEN HalalResult(ing_raw, COMPLIANT, CONF_HIGH, <<"explicitly_vegetarian">>,
                      <<"Explicitly vegetarian/plant-based">>)
     ELSE IF any_word_in_text(ing, MEAT_INGREDIENTS)
     THEN not_vegetarian("contains_meat", "Contains meat - not vegetarian")
     ELSE IF any_word_in_text(ing, FISH_SEAFOOD_INGREDIENTS)
     THEN not_vegetarian("contains_seafood", "Contains fish/seafood - not vegetarian")
     ELSE IF any_word_in_text(ing, strict_animal_additives)
     THEN not_vegetarian("animal_derived", "Contains animal-derived ingredient")
     ELSE IF any_word_in_text(ing, uncertain_for_vegetarian)
     THEN IF any_word_in_text(ing, <<"vegetable", "plant">>)
          THEN HalalResult(ing_raw, COMPLIANT, CONF_HIGH, <<"plant_derived">>,
                           <<"Plant-derived source confirmed">>)
          ELSE HalalResult(ing_raw, UNCERTAIN, CONF_LOW, <<"possibly_animal_derived">>,
                           <<"May be animal-derived - source unclear">>)
     ELSE HalalResult(ing_raw, COMPLIANT, CONF_HIGH, <<"vegetarian_compliant">>,
                      <<"Vegetarian-compliant ingredient">>)

evaluate_pescetarian(ingredient_text) ==
  LET ing_raw == or_empty(ingredient_text)
      ing == normalize_text(ing_raw)
      meat_derived ==
        <<"lard", "tallow", "suet", "beef gelatin", "pork gelatin", "bone broth", "meat extract">>
      not_pescetarian(code, ev) == HalalResult(ing_raw, NOT_COMPLIANT, CONF_HIGH, <<code>>, <<ev>>)
  IN IF any_word_in_text(ing, MEAT_INGREDIENTS)
     THEN not_pescetarian("contains_meat", "Contains meat - not pescetarian")
     ELSE IF any_word_in_text(ing, FISH_SEAFOOD_INGREDIENTS)
     THEN HalalResult(ing_raw, COMPLIANT, CONF_HIGH, <<"fish_allowed">>,
                      <<"Fish/seafood - allowed for pescetarians">>)
     ELSE IF any_word_in_text(ing, meat_derived)
     THEN not_pescetarian("meat_derived", "Derived from land animal - not pescetarian")
     ELSE IF any_word_in_text(ing, <<"gelatin", "gelatine">>)
     THEN IF any_word_in_text(ing, <<"fish gelatin">>)
          THEN HalalResult(ing_raw, COMPLIANT, CONF_HIGH, <<"fish_gelatin">>,
                           <<"Fish gelatin - allowed for pescetarians">>)
          ELSE IF any_word_in_text(ing, <<"pork", "beef", "meat">>)
          THEN not_pescetarian("meat_gelatin", "Meat-derived gelatin - not pescetarian")
          ELSE HalalResult(ing_raw, UNCERTAIN, CONF_LOW, <<"gelatin_source_unknown">>,
                           <<"Gelatin source unknown - may be meat-derived">>)
     ELSE HalalResult(ing_raw, COMPLIANT, CONF_HIGH, <<"pescetarian_compliant">>,
                      <<"Pescetarian-compliant ingredient">>)

(***************************************************************************)
(* app.py scan: the steps of the /scan handler once the OCR has returned   *)
(* raw_ocr_text.  The handler calls its own copies of the evaluators, the  *)
(* aggregators and the lecithin detection; the operators of the backend    *)
(* services above stand for them here.                                     *)
(***************************************************************************)

\* len(re.findall(r"\w+", raw_ocr_text))
token_count(text) ==
  Cardinality({i \in 1..Len(text) :
                 /\ Char(text, i) \in WordCharSet
                 /\ (i = 1 \/ Char(text, i - 1) \notin WordCharSet)})

\* A mutation of zone_failure that lets every UNVERIFIED zone through
zone_failure_unverified_passes(zone) ==
  IF zone.parse_status = "NO_INGREDIENTS"
  THEN Return([success |-> FALSE,
               error |-> "No ingredient list found. Please crop to show 'Ingredientes:' or 'Ingredients:' section."])
  ELSE NoReturn

\* app.py 3219-3229: the error response for zones that are not parsed
zone_failure(zone) ==
  IF zone.parse_status = "NO_INGREDIENTS"
  THEN Return([success |-> FALSE,
               error |-> "No ingredient list found. Please crop to show 'Ingredientes:' or 'Ingredients:' section."])
  ELSE IF zone.parse_status = "UNVERIFIED" /\ Len(strip(zone.ingredient_zone)) < 10
  THEN Return([success |-> FALSE,
               error |-> "Ingredient list could not be verified. Please crop closer to the ingredient section."])
  ELSE NoReturn

\* app.py 3261-3279: the quality check of the parsed ingredients
quality_failure(parsed_ingredients, zone) ==
  IF Len(parsed_ingredients) >= 2 THEN NoReturn
  ELSE IF zone.allergen_advisory_zone # "" /\ Len(zone.allergen_advisory_zone) > 20
  THEN Return([success |-> FALSE,
               error |-> "Only allergen warnings were detected, but no ingredients. Please crop to include the full ingredient list (usually starts with 'Ingredientes:' or 'Ingredients:')."])
  ELSE IF zone.parse_status = "UNVERIFIED"
  THEN Return([success |-> FALSE,
               error |-> "Could not read ingredient list clearly. Please: 1) Zoom in more on the ingredient text, 2) Ensure good lighting, 3) Include the 'Ingredientes:' header if visible."])
  ELSE Return([success |-> FALSE,
               error |-> "Very few ingredients detected. The text may be too small or blurry. Try zooming in closer to the ingredient list."])

\* app.py 3362-3432: the loop over the parsed ingredients, which collects
\* halal_results or kosher_results; a missing field of an ingredient is ""
RECURSIVE evaluate_ingredients(_, _, _)
evaluate_ingredients(parsed_ingredients, raw_ocr_text, profile_diet) ==
  IF parsed_ingredients = <<>> THEN <<>>
  ELSE LET ing == Head(parsed_ingredients)
           normalized == lower(IF ing.normalized # "" THEN ing.normalized
                               ELSE IF ing.english # "" THEN ing.english ELSE ing.original)
           original == lower(ing.original)
           is_lecithin == \/ detect_lecithin_source(original).is_lecithin
                          \/ detect_lecithin_source(normalized).is_lecithin
           rest == evaluate_ingredients(Tail(parsed_ingredients), raw_ocr_text, profile_diet)
       IN IF normalized = "" THEN rest
          ELSE IF profile_diet = "halal"
          THEN <<evaluate_halal_strict(normalized, TRUE,
                                       IF is_lecithin THEN raw_ocr_text ELSE original,
                                       sorted(extract_enumbers_set(normalize_text(normalized))))>>
                 \o rest
          ELSE IF profile_diet = "kosher" THEN <<evaluate_kosher_strict(normalized)>> \o rest
          ELSE rest

(***************************************************************************)
(* Inputs of the ingredient-level evaluation.                              *)
(*                                                                         *)
(* An ingredient text is a phrase of the label followed by at most         *)
(* MaxQualifiers of the further phrases below, in the order of the list    *)
(* (certification signals and other wording of the same entry), as OCR     *)
(* delivers it: mixed case and irregular white space included.             *)
(***************************************************************************)

MaxQualifiers == 1

IngredientPhrases ==
  {"pork", "Bacon", "blood plasma", "bear", "carrion", "kopi luwak", "castoreum", "ambergris",
   "kasturi", "carmine",
   "gelatin", "beef gelatin", "fish gelatin", "pork gelatin", "bovine  gelatine",
   "cheese", "whey powder", "starter culture", "bone meal", "keratin", "elastin", "rennet",
   "glycerin", "vegetable glycerin", "honey",
   "e471", "E-422", "e 441", "e542", "e100", "e471, e422", "e471, e542",
   "e120", "e913", "lanolin", "e901", "beeswax",
   "wine", "ethanol", "vanilla extract", "vinegar", "wine, soy lecithin", "rum, vanilla bean",
   "soy lecithin", "lecithin", "Sunflower Lecithin", "lecithin (rapeseed)", "egg lecithin", "e322",
   "natural flavor", "sugar", " Palm  Oil\t", "mono- and diglycerides"}

QualifierPhrases ==
  <<"jakim", "halal certified", "halal approved", "suitable for muslims", "no pork", "(halal)",
    "natural flavour">>

\* Texts seen before translation, passed as original_text
OriginalTexts == {"lécithine de tournesol", "lecithine de soja", "Lecithine", "sucre"}

\* The chosen phrases (a set of indices of QualifierPhrases) from index i on,
\* each preceded by a space
RECURSIVE JoinPhrases(_, _)
JoinPhrases(chosen, i) ==
  IF i > Len(QualifierPhrases) THEN ""
  ELSE (IF i \in chosen THEN " " \o QualifierPhrases[i] ELSE "") \o JoinPhrases(chosen, i + 1)

IngredientTexts ==
  {main \o JoinPhrases(chosen, 1) :
     main \in IngredientPhrases,
     chosen \in {c \in SUBSET (1..Len(QualifierPhrases)) : Cardinality(c) <= MaxQualifiers}}

(***************************************************************************)
(* Inputs of the product-level aggregation: ingredient results as the      *)
(* ingredient-level evaluators return them.                                *)
(***************************************************************************)

MaxIngredients == 3

\* What the ingredient-level evaluator of each diet returns
IngredientResults ==
  [halal |->
      (* evaluate_halal_strict on ingredients without E-numbers, in either mode *)
      {evaluate_halal_strict(text, mode, "", <<>>) :
         text \in {"pork", "wine", "glycerin", "sugar"}, mode \in BOOLEAN},
   kosher |->
      (* evaluate_kosher_strict on pork, milk, beef, gelatin, sugar *)
      {[ingredient |-> "pork", status |-> NOT_KOSHER, confidence |-> "HIGH",
        reason_codes |-> <<"forbidden_land_animal">>,
        evidence |-> <<"Contains forbidden land animal (non-kosher species)">>],
       [ingredient |-> "milk", status |-> KOSHER_CONFIRMED, confidence |-> "MEDIUM",
        reason_codes |-> <<"dairy_ingredient">>,
        evidence |-> <<"Dairy ingredient (affects meat/dairy separation)">>],
       [ingredient |-> "beef", status |-> REQUIRES_CERTIFICATION, confidence |-> "MEDIUM",
        reason_codes |-> <<"meat_requires_certification">>,
        evidence |-> <<"Meat ingredient requires kosher slaughter verification">>],
       [ingredient |-> "gelatin", status |-> REQUIRES_CERTIFICATION, confidence |-> "LOW",
        reason_codes |-> <<"gelatin_source_unknown">>,
        evidence |-> <<"Gelatin source unknown - may be animal-derived">>],
       [ingredient |-> "sugar", status |-> KOSHER_CONFIRMED, confidence |-> "HIGH",
        reason_codes |-> <<"plant_based_kosher">>,
        evidence |-> <<"Plant-based ingredient, inherently kosher">>]},
   vegan |->
      (* evaluate_vegan on pork, milk, glycerin, sugar *)
      {[ingredient |-> "pork", status |-> NOT_COMPLIANT, confidence |-> "HIGH",
        reason_codes |-> <<"contains_meat">>, evidence |-> <<"Contains meat - not vegan">>],
       [ingredient |-> "milk", status |-> NOT_COMPLIANT, confidence |-> "HIGH",
        reason_codes |-> <<"contains_dairy">>, evidence |-> <<"Contains dairy - not vegan">>],
       [ingredient |-> "glycerin", status |-> UNCERTAIN, confidence |-> "LOW",
        reason_codes |-> <<"possibly_animal_derived">>,
        evidence |-> <<"May be animal-derived - source unclear">>],
       [ingredient |-> "sugar", status |-> COMPLIANT, confidence |-> "HIGH",
        reason_codes |-> <<"plant_based">>, evidence |-> <<"Plant-based ingredient">>]},
   vegetarian |->
      (* evaluate_vegetarian on pork, gelatin, glycerin, milk *)
      {[ingredient |-> "pork", status |-> NOT_COMPLIANT, confidence |-> "HIGH",
        reason_codes |-> <<"contains_meat">>, evidence |-> <<"Contains meat - not vegetarian">>],
       [ingredient |-> "gelatin", status |-> NOT_COMPLIANT, confidence |-> "HIGH",
        reason_codes |-> <<"animal_derived">>, evidence |-> <<"Contains animal-derived ingredient">>],
       [ingredient |-> "glycerin", status |-> UNCERTAIN, confidence |-> "LOW",
        reason_codes |-> <<"possibly_animal_derived">>,
        evidence |-> <<"May be animal-derived - source unclear">>],
       [ingredient |-> "milk", status |-> COMPLIANT, confidence |-> "HIGH",
        reason_codes |-> <<"vegetarian_compliant">>, evidence |-> <<"Vegetarian-compliant ingredient">>]},
   pescetarian |->
      (* evaluate_pescetarian on pork, gelatin, salmon, sugar *)
      {[ingredient |-> "pork", status |-> NOT_COMPLIANT, confidence |-> "HIGH",
        reason_codes |-> <<"contains_meat">>, evidence |-> <<"Contains meat - not pescetarian">>],
       [ingredient |-> "gelatin", status |-> UNCERTAIN, confidence |-> "LOW",
        reason_codes |-> <<"gelatin_source_unknown">>,
        evidence |-> <<"Gelatin source unknown - may be meat-derived">>],
       [ingredient |-> "salmon", status |-> COMPLIANT, confidence |-> "HIGH",
        reason_codes |-> <<"fish_allowed">>, evidence |-> <<"Fish/seafood - allowed for pescetarians">>],
       [ingredient |-> "sugar", status |-> COMPLIANT, confidence |-> "HIGH",
        reason_codes |-> <<"pescetarian_compliant">>, evidence |-> <<"Pescetarian-compliant ingredient">>]}]

(***************************************************************************)
(* Inputs of the lecithin detection and of the allergen check.             *)
(***************************************************************************)

\* original_text and normalized_text of detect_lecithin_source_combined
LecithinTexts ==
  {"", "lécithine de tournesol", "lecithine de tournesol", "lecithine de soja", "soy lecithin",
   "Sunflower Lecithin", "lecithin (rapeseed)", "egg lecithin", "lecithin", "E322", "sugar"}

\* text of check_allergy
AllergyTexts ==
  {"", "sunflower lecithin", "Rapeseed Lecithin", "soy lecithin", "lecithin", "Lecithin (E322)",
   "e322", "egg lecithin", "soybean oil", "tofu", "whole milk", "sesame oil", "lupin flour",
   "sugar"}

\* user_allergens of check_allergy
UserAllergenLists ==
  {<<>>, <<"soy">>, <<"Soy ">>, <<"eggs", "soy">>, <<"soy", "milk">>, <<"milk">>, <<"lupin">>,
   <<"wheat", "lupin">>}

(***************************************************************************)
(* Inputs of the zone segmentation: OCR texts made of what stands before   *)
(* the ingredient list, a header, the list and an allergen advisory, and a *)
(* few texts of other shapes.                                              *)
(***************************************************************************)

RawTexts ==
  LET starts == {"", "Dark Chocolate 85% cocoa\n", "Chocolate negro 85% Cacao: "}
      headers == {"", "Ingredients: ", "INGREDIENTES:", "Zutaten ", "Ingrédients : "}
      lists == {"", "salt", "sugar, cocoa butter, milk powder, soy lecithin",
                "pasta de cacao, azúcar, manteca de cacao", "cocoa mass; sugar; vanilla",
                "sugar, milk\nBest before 12.05.2025\n500 g"}
      advisories == {"", " May contain nuts.", "\nPuede contener: leche", " Contains: milk"}
  IN {start \o header \o list \o advisory :
        start \in starts, header \in headers, list \in lists, advisory \in advisories}
     \cup {"   ", "abc", "may contain nuts, sugar, milk, cocoa butter",
           "            contains: sugar, milk, salt, egg", "contains milk. ingredients: sugar, salt",
           "sugar, milk, salt and cocoa", "hello world, this is no label",
           "Ingredients: 70% cocoa, sugar", "Ingredients: sugar,, salt ; , milk",
           "lngredients: water, salt",
           "Contains milk. Ingredients: sugar, salt, cocoa. May contain nuts."}

(***************************************************************************)
(* Inputs of the scan handler: what the OCR returned, and what the         *)
(* ingredient parser may return for an ingredient zone.                    *)
(***************************************************************************)

\* raw_ocr_text
ScanTexts ==
  {"abc", "Zutaten salt", " May contain nuts.", "hello world, this is no label",
   "salt\nPuede contener: leche", "Ingredients: 70% cocoa, sugar",
   "Ingredients: salt\nPuede contener: leche", "sugar, milk, salt and cocoa",
   "may contain nuts, sugar, milk, cocoa butter",
   "Ingredients: sugar, cocoa butter, milk powder, soy lecithin May contain nuts.",
   "Dark Chocolate 85% cocoa\nINGREDIENTES:pasta de cacao, azúcar, manteca de cacao\nPuede contener: leche"}

MaxParsed == 2

\* The items of parsed["ingredients"]
ParsedIngredients ==
  {[original |-> "azúcar", english |-> "sugar", normalized |-> "sugar"],
   [original |-> "lecitina de soja", english |-> "soy lecithin", normalized |-> "soy lecithin"],
   [original |-> "gelatina", english |-> "Gelatin", normalized |-> ""],
   [original |-> "", english |-> "", normalized |-> ""]}

(***************************************************************************)
(* Inputs of the five ingredient evaluators: None, the empty string, text  *)
(* with an E-number of no registry, text with an unknown certifier word,   *)
(* and ingredient texts of each diet's lists alone and beside other words. *)
(***************************************************************************)

\* ingredient_text
EvaluatorTexts ==
  {None, "", "e999", "colour e999, sugar", "certified by acme", "sugar", "e120", "e471, e422",
   "gelatin", "gelatin, sugar", "gelatine and water", "kosher gelatin", "fish gelatin",
   "pork gelatin", "gelatin ou", "beef", "chicken", "meat extract", "poultry seasoning",
   "beef, kosher certified", "lamb, pork", "milk", "milk, soy lecithin", "dairy-free cream",
   "egg, vegan", "honey", "salmon", "carmine", "almond milk", "whey, agar", "natural flavor",
   "wine", "shrimp", "butter, beef", "glycerin", "stearic acid", "mono and diglycerides",
   "natural flavors", "vitamin d3", "omega-3", "lecithin", "agar, carmine",
   "plant-based chicken"}

NoResult == [status |-> None]

VARIABLES
  ingredient_text,     \* evaluate_halal_strict: parameter ingredient_text
  original_text,       \* evaluate_halal_strict: parameter original_text ("" for None)
  strict_mode,         \* parameter strict_mode of the evaluation or of the aggregation
  e_nums,              \* the list returned by extract_enumbers(ing) in this process
  diet,                \* the diet whose aggregator runs
  ingredient_results,  \* the list of ingredient results handed to the aggregator
  user_allergens,      \* check_allergy: parameter user_allergens
  raw_text,            \* segment_ocr_text: parameter raw_text
  pc,                  \* position of the call: "collect"/"call" before, "return" after;
                       \* of the scan handler; of each thread in load_halal_config
  result,              \* the dict returned by the call; the response of the scan handler
  zone_result,         \* scan: zone_result, what segment_ocr_text returned
  parse_calls,         \* scan: the arguments of each call of parse_ingredient_text so far
  ingredients,         \* scan: parsed.get("ingredients", [])
  halal_config_cache,  \* app.py _halal_config_cache
  disk_reads,          \* how often each config file has been opened by load_halal_config
  cache_stores,        \* how often each key of _halal_config_cache has been assigned
  config_name,         \* load_halal_config: parameter config_name of each thread
  config               \* load_halal_config: local variable config of each thread

vars == <<ingredient_text, original_text, strict_mode, e_nums, diet, ingredient_results,
          user_allergens, raw_text, pc, result, zone_result, parse_calls, ingredients,
          halal_config_cache, disk_reads, cache_stores, config_name, config>>

Init ==
  /\ ingredient_text \in IngredientTexts
  /\ original_text \in {""} \cup (IF ingredient_text \in IngredientPhrases THEN OriginalTexts ELSE {})
  /\ strict_mode \in BOOLEAN
  /\ e_nums = <<>>
  /\ diet = "halal"
  /\ ingredient_results = <<>>
  /\ user_allergens = <<>>
  /\ raw_text = ""
  /\ pc = "call"
  /\ result = NoResult
  /\ zone_result = NoResult
  /\ parse_calls = <<>>
  /\ ingredients = <<>>
  /\ halal_config_cache = <<>>
  /\ disk_reads = <<>>
  /\ cache_stores = <<>>
  /\ config_name = <<>>
  /\ config = <<>>

\* One call of evaluate_halal_strict(ingredient_text, strict_mode, original_text)
EvaluateHalal ==
  /\ pc = "call"
  /\ e_nums' \in extract_enumbers(normalize_text(ingredient_text))
  /\ result' = evaluate_halal_strict(ingredient_text, strict_mode, original_text, e_nums')
  /\ pc' = "return"
  /\ UNCHANGED <<ingredient_text, original_text, strict_mode, diet, ingredient_results, user_allergens, raw_text,
                 zone_result, parse_calls, ingredients, halal_config_cache, disk_reads,
                 cache_stores, config_name, config>>

Next == EvaluateHalal

Spec == Init /\ [][Next]_vars

(***************************************************************************)
(* Product-level aggregation: the per-ingredient loop of the scan handler  *)
(* collects ingredient results, then the diet's aggregator runs on them.   *)
(***************************************************************************)

InitAggregate ==
  /\ diet \in DOMAIN IngredientResults
  /\ strict_mode \in (IF diet = "halal" THEN BOOLEAN ELSE {TRUE})
  /\ ingredient_results = <<>>
  /\ pc = "collect"
  /\ result = NoResult
  /\ ingredient_text = ""
  /\ original_text = ""
  /\ e_nums = <<>>
  /\ user_allergens = <<>>
  /\ raw_text = ""
  /\ zone_result = NoResult
  /\ parse_calls = <<>>
  /\ ingredients = <<>>
  /\ halal_config_cache = <<>>
  /\ disk_reads = <<>>
  /\ cache_stores = <<>>
  /\ config_name = <<>>
  /\ config = <<>>

\* results.append(evaluate_<diet>(ingredient)) in the per-ingredient loop
AddIngredientResult ==
  /\ pc = "collect"
  /\ Len(ingredient_results) < MaxIngredients
  /\ \E r \in IngredientResults[diet] : ingredient_results' = Append(ingredient_results, r)
  /\ UNCHANGED <<ingredient_text, original_text, strict_mode, e_nums, diet, user_allergens, raw_text, pc, result,
                 zone_result, parse_calls, ingredients, halal_config_cache, disk_reads,
                 cache_stores, config_name, config>>

\* The aggregator of the diet applied to the collected results
Aggregate ==
  /\ pc = "collect"
  /\ result' = IF diet = "halal" THEN aggregate_product_halal(ingredient_results, strict_mode)
               ELSE IF diet = "kosher" THEN aggregate_product_kosher(ingredient_results)
               ELSE aggregate_diet_results(ingredient_results, diet)
  /\ pc' = "return"
  /\ UNCHANGED <<ingredient_text, original_text, strict_mode, e_nums, diet, ingredient_results, user_allergens, raw_text,
                 zone_result, parse_calls, ingredients, halal_config_cache, disk_reads,
                 cache_stores, config_name, config>>

NextAggregate == AddIngredientResult \/ Aggregate

SpecAggregate == InitAggregate /\ [][NextAggregate]_vars

(***************************************************************************)
(* Lecithin source detection on an original and a normalized text.         *)
(***************************************************************************)

InitLecithin ==
  /\ original_text \in LecithinTexts
  /\ ingredient_text \in LecithinTexts
  /\ strict_mode = TRUE
  /\ e_nums = <<>>
  /\ diet = "halal"
  /\ ingredient_results = <<>>
  /\ user_allergens = <<>>
  /\ raw_text = ""
  /\ pc = "call"
  /\ result = NoResult
  /\ zone_result = NoResult
  /\ parse_calls = <<>>
  /\ ingredients = <<>>
  /\ halal_config_cache = <<>>
  /\ disk_reads = <<>>
  /\ cache_stores = <<>>
  /\ config_name = <<>>
  /\ config = <<>>

\* One call of detect_lecithin_source_combined(original_text, normalized_text),
\* ingredient_text being the normalized text
DetectLecithin ==
  /\ pc = "call"
  /\ result' = detect_lecithin_source_combined(original_text, ingredient_text)
  /\ pc' = "return"
  /\ UNCHANGED <<ingredient_text, original_text, strict_mode, e_nums, diet, ingredient_results,
                 user_allergens, raw_text,
                 zone_result, parse_calls, ingredients, halal_config_cache, disk_reads,
                 cache_stores, config_name, config>>

NextLecithin == DetectLecithin

SpecLecithin == InitLecithin /\ [][NextLecithin]_vars

(***************************************************************************)
(* Allergen check of an ingredient text against the user's allergens.      *)
(***************************************************************************)

InitAllergy ==
  /\ ingredient_text \in AllergyTexts
  /\ user_allergens \in UserAllergenLists
  /\ raw_text = ""
  /\ original_text = ""
  /\ strict_mode = TRUE
  /\ e_nums = <<>>
  /\ diet = "halal"
  /\ ingredient_results = <<>>
  /\ pc = "call"
  /\ result = NoResult
  /\ zone_result = NoResult
  /\ parse_calls = <<>>
  /\ ingredients = <<>>
  /\ halal_config_cache = <<>>
  /\ disk_reads = <<>>
  /\ cache_stores = <<>>
  /\ config_name = <<>>
  /\ config = <<>>

\* One call of check_allergy(text, user_allergens)
CheckAllergy ==
  /\ pc = "call"
  /\ result' = check_allergy(ingredient_text, user_allergens)
  /\ pc' = "return"
  /\ UNCHANGED <<ingredient_text, original_text, strict_mode, e_nums, diet, ingredient_results,
                 user_allergens, raw_text,
                 zone_result, parse_calls, ingredients, halal_config_cache, disk_reads,
                 cache_stores, config_name, config>>

NextAllergy == CheckAllergy

SpecAllergy == InitAllergy /\ [][NextAllergy]_vars

(***************************************************************************)
(* Zone segmentation of an OCR text.                                       *)
(***************************************************************************)

InitSegment ==
  /\ raw_text \in RawTexts
  /\ ingredient_text = ""
  /\ original_text = ""
  /\ strict_mode = TRUE
  /\ e_nums = <<>>
  /\ diet = "halal"
  /\ ingredient_results = <<>>
  /\ user_allergens = <<>>
  /\ pc = "call"
  /\ result = NoResult
  /\ zone_result = NoResult
  /\ parse_calls = <<>>
  /\ ingredients = <<>>
  /\ halal_config_cache = <<>>
  /\ disk_reads = <<>>
  /\ cache_stores = <<>>
  /\ config_name = <<>>
  /\ config = <<>>

\* One call of segment_ocr_text(raw_text)
Segment ==
  /\ pc = "call"
  /\ result' = segment_ocr_text(raw_text)
  /\ pc' = "return"
  /\ UNCHANGED <<ingredient_text, original_text, strict_mode, e_nums, diet, ingredient_results,
                 user_allergens, raw_text,
                 zone_result, parse_calls, ingredients, halal_config_cache, disk_reads,
                 cache_stores, config_name, config>>

NextSegment == Segment

SpecSegment == InitSegment /\ [][NextSegment]_vars

(***************************************************************************)
(* The /scan handler of app.py from the OCR text to the response.          *)
(***************************************************************************)

InitScan ==
  /\ raw_text \in ScanTexts
  /\ diet \in {"halal", "kosher", None}
  /\ pc = "segment"
  /\ result = NoResult
  /\ zone_result = NoResult
  /\ parse_calls = <<>>
  /\ ingredients = <<>>
  /\ ingredient_results = <<>>
  /\ ingredient_text = ""
  /\ original_text = ""
  /\ strict_mode = TRUE
  /\ e_nums = <<>>
  /\ user_allergens = <<>>
  /\ halal_config_cache = <<>>
  /\ disk_reads = <<>>
  /\ cache_stores = <<>>
  /\ config_name = <<>>
  /\ config = <<>>

\* app.py 3183-3197: the guardrail on the OCR text, then segment_ocr_text
ScanSegment ==
  /\ pc = "segment"
  /\ IF token_count(raw_text) < 3
     THEN /\ result' = [success |-> FALSE,
                        error |-> "Could not extract text from image. Please take a clearer photo of the ingredients list."]
          /\ pc' = "done"
          /\ UNCHANGED zone_result
     ELSE /\ zone_result' = segment_ocr_text(raw_text)
          /\ pc' = "zones"
          /\ UNCHANGED result
  /\ UNCHANGED <<ingredient_text, original_text, strict_mode, e_nums, diet, ingredient_results,
                 user_allergens, raw_text, parse_calls, ingredients, halal_config_cache,
                 disk_reads, cache_stores, config_name, config>>

\* app.py 3219-3235: the zone failures, then the call of parse_ingredient_text
ScanCallParser ==
  /\ pc = "zones"
  /\ IF zone_failure(zone_result).returned
     THEN /\ result' = zone_failure(zone_result).result
          /\ pc' = "done"
          /\ UNCHANGED parse_calls
     ELSE /\ parse_calls' = Append(parse_calls,
                                   [ingredient_zone |-> zone_result.ingredient_zone,
                                    detected_language |-> zone_result.detected_language])
          /\ pc' = "parse"
          /\ UNCHANGED result
  /\ UNCHANGED <<ingredient_text, original_text, strict_mode, e_nums, diet, ingredient_results,
                 user_allergens, raw_text, zone_result, ingredients, halal_config_cache,
                 disk_reads, cache_stores, config_name, config>>

\* app.py 3236-3279: parse_ingredient_text returns, then the quality check
ParserReturns ==
  /\ pc = "parse"
  /\ \E n \in 0..MaxParsed : \E parsed \in [1..n -> ParsedIngredients] :
       /\ ingredients' = parsed
       /\ IF quality_failure(parsed, zone_result).returned
          THEN /\ result' = quality_failure(parsed, zone_result).result
               /\ pc' = "done"
          ELSE /\ pc' = "analysis"
               /\ UNCHANGED result
  /\ UNCHANGED <<ingredient_text, original_text, strict_mode, e_nums, diet, ingredient_results,
                 user_allergens, raw_text, zone_result, parse_calls, halal_config_cache,
                 disk_reads, cache_stores, config_name, config>>

\* app.py 3236-3240: parse_ingredient_text raises
ParserRaises ==
  /\ pc = "parse"
  /\ result' = [success |-> FALSE,
                error |-> "Could not understand ingredient list. Please crop closer."]
  /\ pc' = "done"
  /\ UNCHANGED <<ingredient_text, original_text, strict_mode, e_nums, diet, ingredient_results,
                 user_allergens, raw_text, zone_result, parse_calls, ingredients,
                 halal_config_cache, disk_reads, cache_stores, config_name, config>>

\* app.py 3281-3520: the classification of the ingredients, the aggregation
\* and the response.  The allergen lists and the display fields of the
\* response, which the verdict does not depend on, are left out.
ScanAnalyse ==
  /\ pc = "analysis"
  /\ ingredient_results' = evaluate_ingredients(ingredients, raw_text, diet)
  /\ result' = [success |-> TRUE,
                diet_verdict |->
                  IF diet = "halal" THEN aggregate_product_halal(ingredient_results', TRUE)
                  ELSE IF diet = "kosher" THEN aggregate_product_kosher(ingredient_results')
                  ELSE [status |-> None]]
  /\ pc' = "done"
  /\ UNCHANGED <<ingredient_text, original_text, strict_mode, e_nums, diet, user_allergens,
                 raw_text, zone_result, parse_calls, ingredients, halal_config_cache,
                 disk_reads, cache_stores, config_name, config>>

NextScan == ScanSegment \/ ScanCallParser \/ ParserReturns \/ ParserRaises \/ ScanAnalyse

SpecScan == InitScan /\ [][NextScan]_vars

(***************************************************************************)
(* Specification: one call of the evaluator of one diet on one ingredient  *)
(* text (backend/services/halal.py, kosher.py, diets.py)                   *)
(***************************************************************************)

\* The evaluator that classifies an ingredient for a diet;
\* evaluate_halal_strict starts with `ing_raw = ingredient_text or ""`
evaluate_diet(diet_name, text, strict, enumbers) ==
  CASE diet_name = "halal" -> evaluate_halal_strict(or_empty(text), strict, "", enumbers)
    [] diet_name = "kosher" -> evaluate_kosher_strict(text)
    [] diet_name = "vegan" -> evaluate_vegan(text)
    [] diet_name = "vegetarian" -> evaluate_vegetarian(text)
    [] diet_name = "pescetarian" -> evaluate_pescetarian(text)

InitEvaluate ==
  /\ ingredient_text \in EvaluatorTexts
  /\ original_text = ""
  /\ diet \in {"halal", "kosher", "vegan", "vegetarian", "pescetarian"}
  /\ strict_mode \in (IF diet = "halal" THEN BOOLEAN ELSE {FALSE})
  /\ e_nums = <<>>
  /\ ingredient_results = <<>>
  /\ user_allergens = <<>>
  /\ raw_text = ""
  /\ pc = "call"
  /\ result = NoResult
  /\ zone_result = NoResult
  /\ parse_calls = <<>>
  /\ ingredients = <<>>
  /\ halal_config_cache = <<>>
  /\ disk_reads = <<>>
  /\ cache_stores = <<>>
  /\ config_name = <<>>
  /\ config = <<>>

\* The call of the diet's evaluator; the halal evaluator reads the
\* E-numbers in one of the orders of list(set(matches))
EvaluateDiet ==
  /\ pc = "call"
  /\ e_nums' \in (IF diet = "halal"
                  THEN extract_enumbers(normalize_text(or_empty(ingredient_text)))
                  ELSE {<<>>})
  /\ result' = evaluate_diet(diet, ingredient_text, strict_mode, e_nums')
  /\ pc' = "return"
  /\ UNCHANGED <<ingredient_text, original_text, strict_mode, diet, ingredient_results,
                 user_allergens, raw_text, zone_result, parse_calls, ingredients,
                 halal_config_cache, disk_reads, cache_stores, config_name, config>>

NextEvaluate == EvaluateDiet

SpecEvaluate == InitEvaluate /\ [][NextEvaluate]_vars

(***************************************************************************)
(* Specification: concurrent requests calling load_halal_config (app.py);  *)
(* the development server runs each request in a thread of its own and    *)
(* the function takes no lock.                                             *)
(***************************************************************************)

\* The request threads that are inside the process at the same time
Threads == {"request-1", "request-2"}

\* The config names load_halal_config is called with; halal_config holds a
\* readable file for some of them, for the others open raises
\* FileNotFoundError
ConfigNames == {"e_numbers.json", "alcohol.json", "allergens.json"}

ReadableFiles == {"e_numbers.json", "alcohol.json"}

\* The dict json.load builds: the n-th load of a file builds a new object
\* with the content of the file
LoadedConfig(name, n) == [file |-> name, load |-> n]

\* The {} returned when the file cannot be read
EmptyConfig == [file |-> None, load |-> 0]

InitCache ==
  /\ halal_config_cache = <<>>
  /\ disk_reads = [name \in ConfigNames |-> 0]
  /\ cache_stores = [name \in ConfigNames |-> 0]
  /\ config_name = [t \in Threads |-> None]
  /\ config = [t \in Threads |-> NoResult]
  /\ pc = [t \in Threads |-> "idle"]
  /\ result = [t \in Threads |-> NoResult]
  /\ ingredient_text = ""
  /\ original_text = ""
  /\ strict_mode = TRUE
  /\ e_nums = <<>>
  /\ diet = None
  /\ ingredient_results = <<>>
  /\ user_allergens = <<>>
  /\ raw_text = ""
  /\ zone_result = NoResult
  /\ parse_calls = <<>>
  /\ ingredients = <<>>

\* A request calls load_halal_config(config_name)
CallLoad(t) ==
  /\ pc[t] = "idle"
  /\ \E name \in ConfigNames : config_name' = [config_name EXCEPT ![t] = name]
  /\ pc' = [pc EXCEPT ![t] = "check"]
  /\ config' = [config EXCEPT ![t] = NoResult]
  /\ result' = [result EXCEPT ![t] = NoResult]
  /\ UNCHANGED <<halal_config_cache, disk_reads, cache_stores,
                 ingredient_text, original_text, strict_mode, e_nums, diet,
                 ingredient_results, user_allergens, raw_text, zone_result, parse_calls, ingredients>>

\* if config_name in _halal_config_cache: return _halal_config_cache[config_name]
CheckCache(t) ==
  /\ pc[t] = "check"
  /\ IF config_name[t] \in DOMAIN halal_config_cache
     THEN /\ result' = [result EXCEPT ![t] = halal_config_cache[config_name[t]]]
          /\ pc' = [pc EXCEPT ![t] = "idle"]
     ELSE /\ pc' = [pc EXCEPT ![t] = "open"]
          /\ UNCHANGED result
  /\ UNCHANGED <<halal_config_cache, disk_reads, cache_stores, config_name, config,
                 ingredient_text, original_text, strict_mode, e_nums, diet,
                 ingredient_results, user_allergens, raw_text, zone_result, parse_calls, ingredients>>

\* with open(config_path) as f: config = json.load(f); a file that is
\* missing or is no JSON makes the call return {}
OpenAndLoad(t) ==
  /\ pc[t] = "open"
  /\ IF config_name[t] \in ReadableFiles
     THEN /\ disk_reads' = [disk_reads EXCEPT ![config_name[t]] = @ + 1]
          /\ config' = [config EXCEPT ![t] = LoadedConfig(config_name[t], disk_reads'[config_name[t]])]
          /\ pc' = [pc EXCEPT ![t] = "store"]
          /\ UNCHANGED result
     ELSE /\ result' = [result EXCEPT ![t] = EmptyConfig]
          /\ pc' = [pc EXCEPT ![t] = "idle"]
          /\ UNCHANGED <<disk_reads, config>>
  /\ UNCHANGED <<halal_config_cache, cache_stores, config_name,
                 ingredient_text, original_text, strict_mode, e_nums, diet,
                 ingredient_results, user_allergens, raw_text, zone_result, parse_calls, ingredients>>

\* _halal_config_cache[config_name] = config; return config
StoreConfig(t) ==
  /\ pc[t] = "store"
  /\ halal_config_cache' =
       [name \in DOMAIN halal_config_cache \cup {config_name[t]} |->
          IF name = config_name[t] THEN config[t] ELSE halal_config_cache[name]]
  /\ cache_stores' = [cache_stores EXCEPT ![config_name[t]] = @ + 1]
  /\ result' = [result EXCEPT ![t] = config[t]]
  /\ pc' = [pc EXCEPT ![t] = "idle"]
  /\ UNCHANGED <<disk_reads, config_name, config,
                 ingredient_text, original_text, strict_mode, e_nums, diet,
                 ingredient_results, user_allergens, raw_text, zone_result, parse_calls, ingredients>>

NextCache == \E t \in Threads : CallLoad(t) \/ CheckCache(t) \/ OpenAndLoad(t) \/ StoreConfig(t)

SpecCache == InitCache /\ [][NextCache]_vars

(***************************************************************************)
(* Properties of the ingredient-level halal evaluation.                    *)
(***************************************************************************)

\* C1 - Halal precedence: when the normalized ingredient text matches a term
\* of an always-haram animal-derivative category, evaluate_halal_strict
\* returns HARAM with confidence HIGH in either mode, whatever certification
\* signal the text also carries.
C1_HalalPrecedence ==
  (/\ pc = "return"
   /\ \E data \in Range(ANIMAL_DERIVATIVES_CONFIG.always_haram) :
         \E i \in 1..Len(data.terms) : word_in_text(normalize_text(ingredient_text), data.terms[i]))
  => (result.status = HARAM /\ result.confidence = CONF_HIGH)

\* An always-haram term next to a strong certification, evaluated to HARAM
C1_Witness ==
  /\ pc = "return"
  /\ \E data \in Range(ANIMAL_DERIVATIVES_CONFIG.always_haram) :
        \E i \in 1..Len(data.terms) : word_in_text(normalize_text(ingredient_text), data.terms[i])
  /\ check_halal_certification(normalize_text(ingredient_text)).strength \in {"HIGH", "MEDIUM"}
  /\ result.status = HARAM

\* C2 - Certification override: with a strong certification (strength HIGH
\* or MEDIUM) and none of the dispositive rules firing (animal check HARAM,
\* haram colorant, always-haram E-number), the result is HALAL_CONFIRMED
\* with confidence HIGH whatever provisional mushbooh signals accumulated.
C2_CertificationOverride ==
  LET ing == normalize_text(ingredient_text)
  IN (/\ pc = "return"
      /\ check_halal_certification(ing).strength \in {"HIGH", "MEDIUM"}
      /\ check_animal_derivative_status(ing).status # "HARAM"
      /\ ~\E i \in 1..Len(HARAM_COLORANTS) : word_in_text(ing, HARAM_COLORANTS[i])
      /\ \A e \in extract_enumbers_set(ing) : get_enumber_status(e).status # "HARAM")
     => (result.status = HALAL_CONFIRMED /\ result.confidence = CONF_HIGH)

\* A strongly certified text with a provisional mushbooh signal (an
\* unresolved animal derivative) that was evaluated to HALAL_CONFIRMED
C2_Witness ==
  LET ing == normalize_text(ingredient_text)
  IN /\ pc = "return"
     /\ check_halal_certification(ing).strength \in {"HIGH", "MEDIUM"}
     /\ check_animal_derivative_status(ing).status = "MUSHBOOH"
     /\ \A e \in extract_enumbers_set(ing) : get_enumber_status(e).status # "HARAM"
     /\ result.status = HALAL_CONFIRMED
     /\ result.confidence = CONF_HIGH

\* C5 - Ambiguous sources are never dropped: when the animal-derivative
\* check yields MUSHBOOH, the text carries no strong certification, no rule
\* returns at once (the result still begins with the animal check's reason
\* code) and no reason code of the result is halal-tagged, the returned
\* status is MUSHBOOH in non-strict mode and NOT_HALAL_UNVERIFIED in strict
\* mode, never HALAL_CONFIRMED.
C5_AmbiguousSourceKept ==
  LET ing == normalize_text(ingredient_text)
      animal_result == check_animal_derivative_status(ing)
  IN (/\ pc = "return"
      /\ animal_result.status = "MUSHBOOH"
      /\ check_halal_certification(ing).strength \notin {"HIGH", "MEDIUM"}
      /\ result.reason_codes # <<>>
      /\ result.reason_codes[1] = animal_result.reason_code
      /\ \A rc \in Range(result.reason_codes) : ~IsHalalTag(rc))
     => result.status = (IF strict_mode THEN NOT_HALAL_UNVERIFIED ELSE MUSHBOOH)

\* C6 - Strict-mode remap: the strict call never returns MUSHBOOH; when the
\* non-strict call on the same input returns MUSHBOOH the strict call
\* returns NOT_HALAL_UNVERIFIED with the same confidence, reason codes and
\* evidence; otherwise the two calls return identical results.
C6_StrictModeRemap ==
  pc = "return" =>
    LET other == evaluate_halal_strict(ingredient_text, ~strict_mode, original_text, e_nums)
        strict == IF strict_mode THEN result ELSE other
        lenient == IF strict_mode THEN other ELSE result
    IN /\ strict.status # MUSHBOOH
       /\ lenient.status = MUSHBOOH =>
            /\ strict.status = NOT_HALAL_UNVERIFIED
            /\ strict.confidence = lenient.confidence
            /\ strict.reason_codes = lenient.reason_codes
            /\ strict.evidence = lenient.evidence
       /\ lenient.status # MUSHBOOH => strict = lenient

\* A strict call that returned NOT_HALAL_UNVERIFIED on an input for which
\* the non-strict call returns MUSHBOOH
C6_Witness ==
  /\ pc = "return"
  /\ strict_mode
  /\ result.status = NOT_HALAL_UNVERIFIED
  /\ evaluate_halal_strict(ingredient_text, FALSE, original_text, e_nums).status = MUSHBOOH

(***************************************************************************)
(* Properties of the product-level aggregation.                            *)
(***************************************************************************)

\* The dispositive-fail, requires-verification and fully-compliant statuses
\* of the diet being aggregated
FailStatus ==
  IF diet = "halal" THEN HARAM ELSE IF diet = "kosher" THEN NOT_KOSHER ELSE NOT_COMPLIANT

VerifyStatuses ==
  IF diet = "halal" THEN {MUSHBOOH, NOT_HALAL_UNVERIFIED}
  ELSE IF diet = "kosher" THEN {REQUIRES_CERTIFICATION} ELSE {UNCERTAIN}

PassStatuses == {"HALAL", HALAL_CONFIRMED, KOSHER_CONFIRMED, COMPLIANT}

\* C3 - Aggregation monotonicity: when at least one ingredient result of the
\* list carries the diet's dispositive-fail status (HARAM / NOT_KOSHER /
\* NOT_COMPLIANT), the aggregator's product status is that status with
\* confidence HIGH, never a passing one, wherever the result stands in the
\* list and whatever the other results are.
C3_AggregationMonotonicity ==
  (/\ pc = "return"
   /\ \E i \in 1..Len(ingredient_results) : ingredient_results[i].status = FailStatus)
  => (/\ result.status = FailStatus
      /\ result.confidence = CONF_HIGH
      /\ result.status \notin PassStatuses)

\* A failing result in the last place of three, after two passing ones
C3_Witness ==
  /\ pc = "return"
  /\ Len(ingredient_results) = 3
  /\ ingredient_results[3].status = FailStatus
  /\ \A i \in 1..2 : ingredient_results[i].status \in PassStatuses
  /\ result.status = FailStatus

\* C4 - Unverified ingredients flag the product: when no ingredient result is
\* dispositive-fail and at least one carries a requires-verification status,
\* the product status is never the fully-compliant one, for every diet and
\* every value of strict_mode.
C4_UnverifiedFlagsProduct ==
  (/\ pc = "return"
   /\ \A i \in 1..Len(ingredient_results) : ingredient_results[i].status # FailStatus
   /\ \E i \in 1..Len(ingredient_results) : ingredient_results[i].status \in VerifyStatuses)
  => result.status \notin PassStatuses

(***************************************************************************)
(* Properties of the lecithin detection and of the allergen check.         *)
(***************************************************************************)

SpecificSources == {"sunflower", "soy", "rapeseed", "egg"}

\* C7 - Lecithin source priority: detect_lecithin_source_combined returns the
\* specific source of the original text whenever the original text alone
\* yields one; the normalized text's source only when the original yields
\* none; "unspecified" only when lecithin is present in one of the texts and
\* neither yields a specific source; and original "lécithine de tournesol"
\* with normalized "soy lecithin" resolves to sunflower.
C7_LecithinSourcePriority ==
  pc = "return" =>
    /\ detect_lecithin_source(original_text).source \in SpecificSources
         => result.source = detect_lecithin_source(original_text).source
    /\ (/\ detect_lecithin_source(original_text).source \notin SpecificSources
        /\ detect_lecithin_source(ingredient_text).source \in SpecificSources)
         => result.source = detect_lecithin_source(ingredient_text).source
    /\ result.source = "unspecified"
         => /\ detect_lecithin_source(original_text).is_lecithin
                \/ detect_lecithin_source(ingredient_text).is_lecithin
            /\ detect_lecithin_source(original_text).source \notin SpecificSources
            /\ detect_lecithin_source(ingredient_text).source \notin SpecificSources
    /\ (original_text = "lécithine de tournesol" /\ ingredient_text = "soy lecithin")
         => result.source = "sunflower"

\* C8 - Lecithin-aware allergen check: with soy among the user's allergens,
\* check_allergy returns no soy flag for a text naming sunflower or rapeseed
\* lecithin, a flag for a text naming soy lecithin, and a flag for a text
\* naming lecithin without any source.
C8_LecithinAwareAllergy ==
  (/\ pc = "return"
   /\ \E i \in 1..Len(user_allergens) : strip(lower(user_allergens[i])) = "soy")
  => /\ detect_lecithin_source(ingredient_text).source \in {"sunflower", "rapeseed"}
          => result # ALLERGENS_CONFIG.soy.display
     /\ detect_lecithin_source(ingredient_text).source = "soy" => result # None
     /\ detect_lecithin_source(ingredient_text).source = "unspecified" => result # None

(***************************************************************************)
(* Properties of the zone segmentation.                                    *)
(***************************************************************************)

\* C9 - Zone non-overlap: the header zone, the ingredient zone and the
\* allergen-advisory zone returned by segment_ocr_text are cut from slices of
\* the input that do not overlap and lie in the order header, ingredients,
\* advisory: no character of the input belongs to two zones.
C9_ZoneNonOverlap ==
  pc = "return" =>
    /\ (result.header_zone # "" /\ result.ingredient_zone # "")
         => result.slices.header.hi <= result.slices.ingredients.lo
    /\ (result.ingredient_zone # "" /\ result.allergen_advisory_zone # "")
         => result.slices.ingredients.hi <= result.slices.advisory.lo
    /\ (result.header_zone # "" /\ result.allergen_advisory_zone # "")
         => result.slices.header.hi <= result.slices.advisory.lo

\* C10 - Parse status: segment_ocr_text returns NO_INGREDIENTS with an empty
\* ingredient zone when the text is empty or shorter than 5 characters, or
\* when no ingredient header is found and the fallback shape test fails;
\* UNVERIFIED when no header is found but the fallback accepts the text, or
\* when a header is found and the cleaned ingredient zone has fewer than 5
\* characters; OK exactly when a header is found and the cleaned ingredient
\* zone has at least 5 characters.
C10_ParseStatus ==
  pc = "return" =>
    LET short == raw_text = "" \/ Len(strip(raw_text)) < 5
        marker == ~short /\ find_header_position(raw_text, INGREDIENT_HEADERS).pos # -1
        accepted ==
          attempt_fallback_ingredient_extraction(
            raw_text, find_header_position(raw_text, ALLERGEN_ADVISORY_HEADERS).pos) # ""
    IN /\ result.parse_status \in {"OK", "UNVERIFIED", "NO_INGREDIENTS"}
       /\ (short \/ (~marker /\ ~is_likely_ingredients(raw_text)))
            => (result.parse_status = "NO_INGREDIENTS" /\ result.ingredient_zone = "")
       /\ (~short /\ ~marker /\ accepted) => result.parse_status = "UNVERIFIED"
       /\ (marker /\ Len(result.ingredient_zone) < 5) => result.parse_status = "UNVERIFIED"
       /\ result.parse_status = "OK" <=> (marker /\ Len(result.ingredient_zone) >= 5)

\* A header is found and the cleaning leaves fewer than 5 characters
C10_Witness ==
  /\ pc = "return"
  /\ result.ing.pos # -1
  /\ result.slices.ingredients.hi - result.slices.ingredients.lo >= 5
  /\ Len(result.ingredient_zone) < 5
  /\ result.parse_status = "UNVERIFIED"


(***************************************************************************)
(* Properties of the scan handler.                                         *)
(***************************************************************************)

\* C11 - Scan pipeline ordering: in every run of the scan handler
\* parse_ingredient_text is called at most once, only after segment_ocr_text
\* has returned, never when parse_status is NO_INGREDIENTS nor when it is
\* UNVERIFIED with an ingredient zone shorter than 10 characters, and its
\* arguments are the ingredient zone and the detected language of the zone
\* result; the classification and the aggregation run only after the parser
\* returned at least 2 ingredients.
C11_ScanPipelineOrdering ==
  /\ Len(parse_calls) <= 1
  /\ parse_calls # <<>> =>
       /\ zone_result # NoResult
       /\ zone_result = segment_ocr_text(raw_text)
       /\ zone_result.parse_status # "NO_INGREDIENTS"
       /\ ~(/\ zone_result.parse_status = "UNVERIFIED"
            /\ Len(strip(zone_result.ingredient_zone)) < 10)
       /\ parse_calls[1] = [ingredient_zone |-> zone_result.ingredient_zone,
                            detected_language |-> zone_result.detected_language]
  /\ (pc = "analysis" \/ ingredient_results # <<>> \/ (pc = "done" /\ result.success)) =>
       /\ Len(parse_calls) = 1
       /\ Len(ingredients) >= 2

\* A scan of a text without ingredient header whose fallback zone went to the
\* parser once and whose two parsed ingredients were classified
C11_Witness ==
  /\ pc = "done"
  /\ result.success
  /\ zone_result.parse_status = "UNVERIFIED"
  /\ Len(parse_calls) = 1
  /\ parse_calls[1].ingredient_zone = zone_result.ingredient_zone
  /\ Len(ingredients) = 2
  /\ Len(ingredient_results) = 2


(***************************************************************************)
(* Properties of the ingredient-level evaluators.                          *)
(***************************************************************************)

\* C12 - Determinism of classification: a call of evaluate_halal_strict returns
\* what every other call with the same ingredient text, mode and original
\* text returns - the same status, confidence, reason codes and evidence in
\* the same order - in whatever order the extracted E-numbers are processed.
C12_Determinism ==
  pc = "return" =>
    \A order \in extract_enumbers(normalize_text(ingredient_text)) :
       evaluate_halal_strict(ingredient_text, strict_mode, original_text, order) = result

\* The closed status domain of each diet
StatusDomain ==
  [halal |-> {HALAL_CONFIRMED, HARAM, MUSHBOOH, NOT_HALAL_UNVERIFIED},
   kosher |-> {KOSHER_CONFIRMED, NOT_KOSHER, REQUIRES_CERTIFICATION},
   vegan |-> {COMPLIANT, NOT_COMPLIANT, UNCERTAIN},
   vegetarian |-> {COMPLIANT, NOT_COMPLIANT, UNCERTAIN},
   pescetarian |-> {COMPLIANT, NOT_COMPLIANT, UNCERTAIN}]

\* The texts with a word of no reference table, each with the same text
\* without that word
WithoutUnknown ==
  [text \in {"e999", "colour e999, sugar", "certified by acme"} |->
     CASE text = "e999" -> ""
       [] text = "colour e999, sugar" -> "colour , sugar"
       [] text = "certified by acme" -> "certified by"]

\* C13: every evaluator returns, for every ingredient text (None and the
\* empty string included), a result whose status is in the closed domain of
\* the diet and whose confidence is HIGH, MEDIUM or LOW; an E-number of no
\* registry and an unknown certifier word add no reason code and change
\* neither the status nor the confidence.
C13_Totality ==
  pc = "return" =>
    /\ DOMAIN result = {"ingredient", "status", "confidence", "reason_codes", "evidence"}
    /\ result.status \in StatusDomain[diet]
    /\ result.confidence \in {CONF_HIGH, CONF_MED, CONF_LOW}
    /\ ingredient_text \in {None, ""} =>
         /\ result.ingredient = ""
         /\ result.status \in {HALAL_CONFIRMED, KOSHER_CONFIRMED, COMPLIANT}
         /\ Len(result.reason_codes) = 1
    /\ ingredient_text \in DOMAIN WithoutUnknown =>
         LET known == evaluate_diet(diet, WithoutUnknown[ingredient_text], strict_mode, <<>>)
         IN /\ result.status = known.status
            /\ result.confidence = known.confidence
            /\ result.reason_codes = known.reason_codes

C13_Witness ==
  /\ pc = "return"
  /\ diet = "halal"
  /\ ingredient_text = "colour e999, sugar"
  /\ e_nums = <<"999">>
  /\ result.status = HALAL_CONFIRMED

\* The text matches a rule of evaluate_kosher_strict that returns NOT_KOSHER
matches_not_kosher_rule(ing) ==
  \/ any_word_in_text(ing, FORBIDDEN_LAND_ANIMALS)
  \/ any_word_in_text(ing, FORBIDDEN_SEAFOOD)
  \/ any_word_in_text(ing, INSECT_DERIVED)
  \/ any_word_in_text(ing, BLOOD_PRODUCTS)
  \/ any_word_in_text(ing, MEAT_DAIRY_MIX)
  \/ \E i \in 1..Len(SOURCE_DEPENDENT_KOSHER) :
       /\ any_word_in_text(ing, SOURCE_DEPENDENT_KOSHER[i].terms)
       /\ any_word_in_text(ing, SOURCE_DEPENDENT_KOSHER[i].not_kosher_terms)

\* C14: an ingredient text with the term gelatin or gelatine, no NOT_KOSHER
\* term, no kosher-gelatin term, no non-kosher gelatin term and no kosher
\* certification is REQUIRES_CERTIFICATION, whatever other words it contains.
C14_KosherGelatinDefault ==
  (/\ pc = "return"
   /\ diet = "kosher"
   /\ LET ing == normalize_text(or_empty(ingredient_text))
          gelatin == SOURCE_DEPENDENT_KOSHER[1]
      IN /\ gelatin.ing_type = "gelatin"
         /\ any_word_in_text(ing, gelatin.terms)
         /\ ~matches_not_kosher_rule(ing)
         /\ ~any_word_in_text(ing, gelatin.kosher_terms)
         /\ ~any_word_in_text(ing, gelatin.not_kosher_terms)
         /\ ~has_kosher_certification(ing))
  => result.status = REQUIRES_CERTIFICATION

\* C15: an ingredient text that matches a meat indicator, matches no
\* NOT_KOSHER rule and holds no certifier mark or certification phrase (the
\* meat indicator words themselves are no certification wording) is
\* REQUIRES_CERTIFICATION, never KOSHER_CONFIRMED.
C15_KosherMeatNeedsCertification ==
  (/\ pc = "return"
   /\ diet = "kosher"
   /\ LET ing == normalize_text(or_empty(ingredient_text))
          meat_indicators == <<"beef", "chicken", "lamb", "turkey", "meat", "poultry">>
      IN /\ any_word_in_text(ing, meat_indicators)
         /\ ~matches_not_kosher_rule(ing)
         /\ \A i \in 1..Len(KOSHER_CERTIFICATIONS) :
              word_in_text(ing, KOSHER_CERTIFICATIONS[i])
                => KOSHER_CERTIFICATIONS[i] \in Range(meat_indicators))
  => result.status = REQUIRES_CERTIFICATION

(***************************************************************************)
(* Properties of the product-level aggregators                             *)
(***************************************************************************)

\* The ingredient result is the one evaluate_kosher_strict gives an
\* ingredient with a dairy indicator (is_dairy)
is_dairy_result(r) == "dairy_ingredient" \in Range(r.reason_codes)

\* The ingredient result is the one evaluate_kosher_strict gives an
\* ingredient with a meat indicator (is_meat)
is_meat_result(r) ==
  Range(r.reason_codes) \cap {"meat_requires_certification", "meat_kosher_certified"} # {}

\* C16: when no ingredient result is NOT_KOSHER, aggregate_product_kosher
\* returns NOT_KOSHER with reason code meat_dairy_combination exactly when
\* the results hold a meat ingredient and a dairy ingredient; ingredients
\* that are all KOSHER_CONFIRMED, with dairy and without meat, give
\* KOSHER_CONFIRMED.
C16_KosherMeatDairyFlag ==
  (/\ pc = "return"
   /\ diet = "kosher"
   /\ \A i \in 1..Len(ingredient_results) : ingredient_results[i].status # NOT_KOSHER)
  => LET some(is_kind(_)) == \E i \in 1..Len(ingredient_results) : is_kind(ingredient_results[i])
     IN /\ (result.status = NOT_KOSHER /\ result.reason_codes = <<"meat_dairy_combination">>)
             <=> (some(is_meat_result) /\ some(is_dairy_result))
        /\ (/\ \A i \in 1..Len(ingredient_results) : ingredient_results[i].status = KOSHER_CONFIRMED
            /\ some(is_dairy_result)
            /\ ~some(is_meat_result))
           => result.status = KOSHER_CONFIRMED

(***************************************************************************)
(* Properties of the vegan evaluator                                       *)
(***************************************************************************)

\* C17: an ingredient text with a term of the meat, fish/seafood, dairy, egg
\* or bee-product lists or of the animal-additive list is NOT_COMPLIANT with
\* confidence HIGH for the vegan diet, whatever other words it contains.
C17_VeganForbidsAnimalProducts ==
  (/\ pc = "return"
   /\ diet = "vegan"
   /\ \E terms \in {MEAT_INGREDIENTS, FISH_SEAFOOD_INGREDIENTS, DAIRY_INGREDIENTS,
                    EGG_INGREDIENTS, BEE_PRODUCTS, ANIMAL_DERIVED_ADDITIVES} :
        any_word_in_text(normalize_text(or_empty(ingredient_text)), terms))
  => (result.status = NOT_COMPLIANT /\ result.confidence = CONF_HIGH)

\* C18: the verdict of every diet's aggregator is the same for every
\* permutation of the list of ingredient results: same status, confidence,
\* reason sentence and reason_codes list (sorted, without duplicates) and
\* the same set of failing ingredients.
C18_AggregationOrderIndependent ==
  pc = "return" =>
    \A order \in Permutations(1..Len(ingredient_results)) :
      LET permuted == [i \in 1..Len(ingredient_results) |-> ingredient_results[order[i]]]
          verdict == IF diet = "halal" THEN aggregate_product_halal(permuted, strict_mode)
                     ELSE IF diet = "kosher" THEN aggregate_product_kosher(permuted)
                     ELSE aggregate_diet_results(permuted, diet)
      IN /\ verdict.status = result.status
         /\ verdict.confidence = result.confidence
         /\ verdict.reason = result.reason
         /\ verdict.reason_codes = result.reason_codes
         /\ Range(verdict.failing_ingredients) = Range(result.failing_ingredients)
         /\ \A i \in 1..(Len(result.reason_codes) - 1) :
              StringLess(result.reason_codes[i], result.reason_codes[i + 1])

C18_Witness ==
  /\ pc = "return"
  /\ Len(ingredient_results) = 3
  /\ ingredient_results[1].status # ingredient_results[2].status
  /\ ingredient_results[2].reason_codes # ingredient_results[3].reason_codes
  /\ Len(result.failing_ingredients) = 2
  /\ Len(result.reason_codes) = 2
  /\ result.failing_ingredients[1] # result.failing_ingredients[2]

(***************************************************************************)
(* Properties of the knowledge-base cache                                  *)
(***************************************************************************)

\* C19: across every interleaving of concurrent calls of load_halal_config
\* each config name is read from disk and stored in the cache at most once;
\* a call that finds the entry returns the cached value, and a stored entry
\* is the only object ever loaded for its name.
C19_CacheWriteOnce ==
  /\ \A name \in ConfigNames : disk_reads[name] <= 1 /\ cache_stores[name] <= 1
  /\ \A name \in DOMAIN halal_config_cache : halal_config_cache[name] = LoadedConfig(name, 1)

(***************************************************************************)
(* Properties of the fallback of the zone segmentation                     *)
(***************************************************************************)

\* C20: without an ingredient marker the text is accepted as ingredients
\* only if it holds at least 2 common-ingredient terms, at least 2
\* separators (commas and semicolons together) and at least 5
\* whitespace-delimited tokens; a text that fails one of the three gives an
\* empty ingredient zone and parse status NO_INGREDIENTS.
C20_FallbackAcceptance ==
  (/\ pc = "return"
   /\ find_header_position(raw_text, INGREDIENT_HEADERS).pos = -1
   /\ LET terms == Cardinality({j \in DOMAIN COMMON_INGREDIENT_TERMS :
                                  Contains(lower(raw_text), COMMON_INGREDIENT_TERMS[j])})
          separators == Cardinality({i \in 1..Len(raw_text) : Char(raw_text, i) \in {",", ";"}})
          tokens == Cardinality({i \in 1..Len(raw_text) :
                                   /\ Char(raw_text, i) \notin WhiteSpace
                                   /\ i = 1 \/ Char(raw_text, i - 1) \in WhiteSpace})
      IN ~(terms >= 2 /\ separators >= 2 /\ tokens >= 5))
  => (result.ingredient_zone = "" /\ result.parse_status = "NO_INGREDIENTS")

\* C21: when an ingredient marker is found and an advisory marker occurs
\* after the start of the ingredient list, the ingredient zone ends at the
\* earliest such marker and the advisory zone starts there, also when an
\* advisory-marker word occurs before the ingredient marker.
C21_AdvisoryAfterIngredientMarker ==
  pc = "return" /\ result.ing.pos # -1 =>
    LET ing_start == skip_separators(raw_text, result.ing.pos + Len(result.ing.header))
        rest == lower(Slice(raw_text, ing_start, Len(raw_text)))
        found == {find(rest, ALLERGEN_ADVISORY_HEADERS[j]) : j \in DOMAIN ALLERGEN_ADVISORY_HEADERS}
                   \ {-1, 0}
        later == ing_start + (CHOOSE p \in found : \A q \in found : p <= q)
    IN found # {} =>
         /\ result.allergen_advisory_zone = strip(Slice(raw_text, later, Len(raw_text)))
         /\ result.slices.ingredients.hi <= later

\* C22: an ingredient text that is one member of the possibly-animal-derived
\* list and nothing else is UNCERTAIN with confidence LOW for the vegan
\* diet, never NOT_COMPLIANT and never COMPLIANT.
C22_VeganPossiblyAnimalDerived ==
  (/\ pc = "return"
   /\ diet = "vegan"
   /\ ingredient_text \in Range(POSSIBLY_ANIMAL_DERIVED))
  => (result.status = UNCERTAIN /\ result.confidence = CONF_LOW)

(***************************************************************************)
(* Properties of the final status computation of evaluate_halal_strict     *)
(***************************************************************************)

\* What evaluate_halal_strict holds when it reaches `# Determine final
\* status`: whether no earlier step returned, the list reasons, and the two
\* certification flags
at_final_computation(ingredient, original, enumbers) ==
  LET ing == normalize_text(ingredient)
      orig == IF original # "" THEN normalize_text(original) ELSE ""
      cert_result == check_halal_certification(ing)
      strong_cert == cert_result.strength \in {"HIGH", "MEDIUM"}
      animal_result == check_animal_derivative_status(ing)
      alcohol_result == check_alcohol_status(ing)
      lecithin_result == IF orig # "" THEN detect_lecithin_source_combined(orig, ing)
                         ELSE detect_lecithin_source(ing)
      loop == enumber_loop(enumbers, ingredient, animal_findings(animal_result, strong_cert))
  IN IF \/ animal_step(ingredient, animal_result).returned
        \/ colorant_step(ingredient, ing, animal_findings(animal_result, strong_cert)).returned
        \/ loop.returned
        \/ alcohol_step(ingredient, alcohol_result, strong_cert).returned
        \/ gelatin_step(ingredient, ing).returned
        \/ lecithin_step(ingredient, lecithin_result, strong_cert).returned
     THEN [reached |-> FALSE]
     ELSE [reached |-> TRUE, strong_cert |-> strong_cert, weak_cert |-> cert_result.strength = "WEAK",
           reasons |-> reason_codes_of(loop.findings \o alcohol_findings(alcohol_result, strong_cert)
                                         \o gelatin_findings(ing)
                                         \o lecithin_findings(lecithin_result, strong_cert)
                                         \o flavor_findings(ing))]

\* The claim of C23 about a call that reached the final computation with
\* the list reasons and the certification flags of final
final_status_by_tag_counts(final, strict, returned) ==
  (/\ final.reached
   /\ ~final.strong_cert
   /\ ~\E rc \in Range(final.reasons) : IsHaramTag(rc)
   /\ \E rc \in Range(final.reasons) : IsMushboohTag(rc))
  => IF Cardinality(halal_reasons(final.reasons)) >= Cardinality(mushbooh_reasons(final.reasons))
     THEN returned.status = HALAL_CONFIRMED /\ returned.confidence = CONF_HIGH
     ELSE /\ returned.status = (IF strict THEN NOT_HALAL_UNVERIFIED ELSE MUSHBOOH)
          /\ returned.confidence = (IF final.weak_cert THEN CONF_MED ELSE CONF_LOW)

\* C23: when evaluate_halal_strict reaches the final computation with no
\* strong certification, no haram-tagged and at least one mushbooh-tagged
\* reason code, the computed status is HALAL_CONFIRMED with confidence HIGH
\* exactly when the halal-tagged reason codes are at least as many as the
\* mushbooh-tagged ones; otherwise it is MUSHBOOH (NOT_HALAL_UNVERIFIED
\* after the strict-mode conversion) with confidence MEDIUM under a weak
\* certification signal and LOW without.
C23_FinalStatusByTagCounts ==
  pc = "return" =>
    final_status_by_tag_counts(at_final_computation(ingredient_text, original_text, e_nums),
                               strict_mode, result)

C23_Witness ==
  /\ pc = "return"
  /\ result.status = HALAL_CONFIRMED
  /\ result.confidence = CONF_HIGH
  /\ \E rc \in Range(result.reason_codes) : IsMushboohTag(rc)
  /\ ~\E rc \in Range(result.reason_codes) : IsHaramTag(rc)
  /\ check_halal_certification(normalize_text(ingredient_text)).strength \notin {"HIGH", "MEDIUM"}

C23_WitnessB ==
  /\ pc = "return"
  /\ result.status \in {MUSHBOOH, NOT_HALAL_UNVERIFIED}
  /\ result.confidence = CONF_MED
  /\ at_final_computation(ingredient_text, original_text, e_nums).reached

(***************************************************************************)
(* Properties of the alcohol rule of evaluate_halal_strict                 *)
(***************************************************************************)

\* What evaluate_halal_strict holds when it reaches `# 4) Alcohol check`:
\* whether no earlier step returned, the result of check_alcohol_status and
\* the strong-certification flag
at_alcohol_check(ingredient, enumbers) ==
  LET ing == normalize_text(ingredient)
      strong_cert == check_halal_certification(ing).strength \in {"HIGH", "MEDIUM"}
      animal_result == check_animal_derivative_status(ing)
  IN [reached |-> ~(\/ animal_step(ingredient, animal_result).returned
                    \/ colorant_step(ingredient, ing, animal_findings(animal_result, strong_cert)).returned
                    \/ enumber_loop(enumbers, ingredient, animal_findings(animal_result, strong_cert)).returned),
      strong_cert |-> strong_cert,
      alcohol_result |-> check_alcohol_status(ing)]

ALCOHOL_CERT_CLAIM == "alcohol_related_term_present_but_halal_cert_claim"

\* The claim of C24 about a call that reached the alcohol check with at,
\* would reach the final computation with final, and returned returned
alcohol_hit_and_certification(at, final, provisional, returned) ==
  (at.reached /\ at.alcohol_result.status = "HARAM") =>
     IF ~at.strong_cert
     THEN /\ returned.status = HARAM
          /\ returned.confidence = CONF_HIGH
          /\ returned.reason_codes = <<at.alcohol_result.reason_code>>
     ELSE /\ reason_codes_of(provisional) = <<ALCOHOL_CERT_CLAIM>>
          /\ EndsWith(provisional[1].evidence, "; but strong halal certification detected")
          /\ at.alcohol_result.reason_code \notin Range(returned.reason_codes)
          /\ final.reached =>
               /\ ALCOHOL_CERT_CLAIM \in Range(returned.reason_codes)
               /\ provisional[1].evidence \in Range(returned.evidence)
          /\ returned.status = HALAL_CONFIRMED
          /\ returned.confidence = CONF_HIGH

\* C24: when the alcohol check reports HARAM and no earlier rule returned,
\* then without strong certification the result is HARAM with confidence
\* HIGH and exactly the reason code of the alcohol category; with strong
\* certification the hit enters the reasons only as the provisional code
\* 'alcohol_related_term_present_but_halal_cert_claim' with the override
\* noted in its evidence, the category's code is not returned, and the
\* returned status is HALAL_CONFIRMED with confidence HIGH.
C24_AlcoholHitAndCertification ==
  pc = "return" =>
    alcohol_hit_and_certification(
      at_alcohol_check(ingredient_text, e_nums),
      at_final_computation(ingredient_text, original_text, e_nums),
      alcohol_findings(check_alcohol_status(normalize_text(ingredient_text)),
                       check_halal_certification(normalize_text(ingredient_text)).strength
                         \in {"HIGH", "MEDIUM"}),
      result)

C24_Witness ==
  /\ pc = "return"
  /\ at_alcohol_check(ingredient_text, e_nums).reached
  /\ at_alcohol_check(ingredient_text, e_nums).alcohol_result.status = "HARAM"
  /\ at_alcohol_check(ingredient_text, e_nums).strong_cert
  /\ ALCOHOL_CERT_CLAIM \in Range(result.reason_codes)
  /\ result.status = HALAL_CONFIRMED

\* The terms of an explicit-alcohol, alcoholic-beverage or wine-based group
\* found in text outside every halal-alternative or low-risk-fermented
\* phrase found in it
separate_alcohol_terms(text) ==
  LET allowed == Range(ALCOHOL_CONFIG.halal_alternatives.terms)
                   \cup Range(ALCOHOL_CONFIG.low_risk_fermented.terms)
      forbidden == Range(ALCOHOL_CONFIG.explicit_alcohols.terms)
                     \cup Range(ALCOHOL_CONFIG.alcoholic_beverages.terms)
                     \cup Range(ALCOHOL_CONFIG.alcohol_processing.terms)
  IN {term \in forbidden :
        /\ word_in_text(text, term)
        /\ \A phrase \in allowed :
              word_in_text(text, phrase) =>
                ~Contains(phrase, term) /\ ~Contains(term, phrase)}

\* C26: an ingredient text with a halal-alternative or low-risk-fermented
\* match that also holds a separate explicit-alcohol, alcoholic-beverage or
\* wine-based term, and carries no strong certification, is classified
\* HARAM by evaluate_halal_strict.
C26_AlternativesDoNotMaskAlcohol ==
  (/\ pc = "return"
   /\ check_alcohol_status(normalize_text(ingredient_text)).status = "HALAL"
   /\ separate_alcohol_terms(normalize_text(ingredient_text)) # {}
   /\ check_halal_certification(normalize_text(ingredient_text)).strength \notin {"HIGH", "MEDIUM"})
  => result.status = HARAM

(***************************************************************************)
(* app.py: lecithin detection, the allergy matching and the part of the    *)
(* /scan loop that uses them.  The operators of app.py whose names the     *)
(* backend services also use carry the prefix app_.                        *)
(***************************************************************************)

\* app.py 492-499; the three characters replaced at line 497 (en dash, em
\* dash, typographic apostrophe) are outside the characters of these texts
app_normalize_text(s) ==
  IF s = "" THEN "" ELSE collapse_whitespace(strip(lower(s)))

\* str.isalnum()
isalnum(s) == s # "" /\ \A i \in 1..Len(s) : Char(s, i) \in (WordCharSet \ {"_"})

\* app.py 502-521
app_word_in_text(text, phrase) ==
  LET t == app_normalize_text(text)
      p == app_normalize_text(phrase)
      single_token == ~Contains(p, " ") /\ isalnum(p)
  IN IF Contains(t, p)
     THEN (IF single_token THEN SearchWord(t, p) ELSE TRUE)
     ELSE IF single_token THEN SearchWord(t, p)
     ELSE FALSE

\* app.py 528-550: e_num in extract_enumbers(text), for the patterns
\* r"\be\s*[-]?\s*(\d{3,4})\b" and r"\be\s*number\s*(\d{3,4})\b"
app_contains_enumber(text, e_num) ==
  LET t == app_normalize_text(text)
      Group(c) == /\ StartsAt(t, c, e_num)
                  /\ WordBoundary(t, c + Len(e_num) - 1)
  IN \E i \in 1..Len(t) :
        /\ StartsAt(t, i, "e")
        /\ WordBoundary(t, i - 1)
        /\ \E a \in SpacesFrom(t, i + 1) :
              \/ \E b \in (IF StartsAt(t, a, "-") THEN {a, a + 1} ELSE {a}) :
                    \E c \in SpacesFrom(t, b) : Group(c)
              \/ /\ StartsAt(t, a, "number")
                 /\ \E c \in SpacesFrom(t, a + Len("number")) : Group(c)

\* app.py 615-640, in the order of the dict
LECITHIN_SOURCES ==
  << <<"sunflower", "sunflower">>, <<"tournesol", "sunflower">>, <<"sonnenblume", "sunflower">>,
     <<"girasol", "sunflower">>, <<"girasole", "sunflower">>,
     <<"soy", "soy">>, <<"soya", "soy">>, <<"soja", "soy">>,
     <<"rapeseed", "rapeseed">>, <<"colza", "rapeseed">>, <<"raps", "rapeseed">>,
     <<"canola", "rapeseed">>,
     <<"egg", "egg">>, <<"oeuf", "egg">>, <<"ei", "egg">>, <<"huevo", "egg">>, <<"uovo", "egg">> >>

\* app.py 655-658
LECITHIN_ALLERGENS == [soy |-> "soy", egg |-> "egg"]

\* app.py 681-684
lecithin_terms == <<"lecithin", "lecithine", "lécithine", "lecitina", "e322">>

\* app.py 703-708
source_names ==
  [sunflower |-> "Sunflower lecithin", soy |-> "Soy lecithin",
   rapeseed |-> "Rapeseed/canola lecithin", egg |-> "Egg lecithin"]

\* app.py 660-711: the tuple (is_lecithin, source, explanation)
app_detect_lecithin_source(ingredient) ==
  LET text == app_normalize_text(ingredient)
      is_lecithin == \/ \E i \in DOMAIN lecithin_terms : Contains(text, lecithin_terms[i])
                     \/ app_contains_enumber(text, "322")
      hit == FirstIndex({k \in DOMAIN LECITHIN_SOURCES : Contains(text, LECITHIN_SOURCES[k][1])})
  IN IF ~is_lecithin THEN [is_lecithin |-> FALSE, source |-> None, explanation |-> None]
     ELSE IF hit = 0
     THEN [is_lecithin |-> TRUE, source |-> "unspecified",
           explanation |-> "Lecithin with unspecified source"]
     ELSE [is_lecithin |-> TRUE, source |-> LECITHIN_SOURCES[hit][2],
           explanation |-> source_names[LECITHIN_SOURCES[hit][2]] \o " detected"]

\* app.py 714-723
get_lecithin_allergens(lecithin_source) ==
  IF lecithin_source \in DOMAIN LECITHIN_ALLERGENS
  THEN <<LECITHIN_ALLERGENS[lecithin_source]>>
  ELSE <<>>

\* app.py 227-229: load_halal_config("allergens.json"); the repository has no
\* halal_config directory, so that load_halal_config returns {}
get_allergens_config == [name \in {} |-> <<>>]

\* app.py 243-255
allergen_map ==
  [soy |-> "soy", soya |-> "soy", dairy |-> "milk", lactose |-> "milk", eggs |-> "egg",
   peanuts |-> "peanut", nuts |-> "tree_nuts", gluten |-> "wheat", crustacean |-> "shellfish",
   crustaceans |-> "shellfish"] @@ [k \in {"tree nuts"} |-> "tree_nuts"]

\* app.py 232-273
get_allergen_terms(allergen_type) ==
  LET allergen_type_lower == strip(lower(allergen_type))
      normalized == IF allergen_type_lower \in DOMAIN allergen_map
                    THEN allergen_map[allergen_type_lower] ELSE allergen_type_lower
  IN IF normalized \notin DOMAIN get_allergens_config \/ get_allergens_config[normalized] = <<>>
     THEN <<allergen_type_lower>>
     ELSE get_allergens_config[normalized]

\* app.py 1510-1560
app_check_allergy(ingredient, allergies) ==
  LET ing == lower(ingredient)
      lecithin == app_detect_lecithin_source(ing)
      lecithin_allergens == get_lecithin_allergens(lecithin.source)
  IN IF lecithin.is_lecithin
     THEN \/ \E i \in DOMAIN allergies : strip(lower(allergies[i])) \in Range(lecithin_allergens)
          \/ /\ lecithin.source = "unspecified"
             /\ \E i \in DOMAIN allergies : strip(lower(allergies[i])) \in {"soy", "soya"}
     ELSE \E i \in DOMAIN allergies :
             \E term \in Range(get_allergen_terms(allergies[i])) : app_word_in_text(ing, term)

\* app.py 3403-3410
source_display_names ==
  [sunflower |-> "sunflower lecithin", soy |-> "soy lecithin", rapeseed |-> "rapeseed lecithin",
   egg |-> "egg lecithin", unspecified |-> "lecithin (source unspecified)"]

\* app.py 3358-3369: normalized, original and english_from_gpt of an item
normalized_of(ing) ==
  lower(IF ing.normalized # "" THEN ing.normalized
        ELSE IF ing.english # "" THEN ing.english
        ELSE ing.original)

\* app.py 3383-3416: the lecithin correction of one item; specific(r) is the
\* test `is_lecithin and source and source != "unspecified"`
lecithin_correction(ing, raw_ocr_text) ==
  LET normalized == normalized_of(ing)
      orig == app_detect_lecithin_source(lower(ing.original))
      norm == app_detect_lecithin_source(normalized)
      raw == app_detect_lecithin_source(raw_ocr_text)
      specific(r) == r.is_lecithin /\ r.source # None /\ r.source # "unspecified"
      correct_source == IF specific(raw) THEN raw.source
                        ELSE IF specific(orig) THEN orig.source
                        ELSE IF specific(norm) THEN norm.source
                        ELSE "unspecified"
  IN IF orig.is_lecithin \/ norm.is_lecithin
     THEN [is_lecithin |-> TRUE, correct_source |-> correct_source,
           display_name |-> source_display_names[correct_source],
           corrected_english |-> source_display_names[correct_source]]
     ELSE [is_lecithin |-> FALSE, correct_source |-> None,
           display_name |-> normalized, corrected_english |-> lower(ing.english)]

\* app.py 3436-3441: the text handed to check_allergy for one item
allergy_check_text(ing, raw_ocr_text) ==
  IF \/ app_detect_lecithin_source(lower(ing.original)).is_lecithin
     \/ app_detect_lecithin_source(normalized_of(ing)).is_lecithin
  THEN raw_ocr_text
  ELSE lower(ing.original)

(***************************************************************************)
(* One turn of the ingredient loop of the /scan handler of app.py: the     *)
(* lecithin correction of the item, then its allergy flag.  The texts are  *)
(* the OCR text of a label and one item the parser returned for it.        *)
(***************************************************************************)

\* raw_ocr_text with one item of parsed["ingredients"]
LabelItems ==
  {[raw |-> "Ingredients: sugar, milk powder, sunflower lecithin",
    ing |-> [original |-> "sunflower lecithin", english |-> "sunflower lecithin",
             normalized |-> "sunflower lecithin"]],
   [raw |-> "Ingredients: sugar, milk powder, sunflower lecithin",
    ing |-> [original |-> "milk powder", english |-> "milk powder", normalized |-> "milk powder"]],
   [raw |-> "Ingredients: sunflower oil, soy lecithin",
    ing |-> [original |-> "soy lecithin", english |-> "soy lecithin", normalized |-> "soy lecithin"]],
   [raw |-> "Ingredients: sunflower oil, soy lecithin",
    ing |-> [original |-> "sunflower oil", english |-> "sunflower oil",
             normalized |-> "sunflower oil"]],
   [raw |-> "Ingredients: cocoa, soy lecithin",
    ing |-> [original |-> "soy lecithin", english |-> "soy lecithin", normalized |-> "soy lecithin"]],
   [raw |-> "Ingrédients : sucre, lécithine de tournesol",
    ing |-> [original |-> "lécithine de tournesol", english |-> "soy lecithin",
             normalized |-> "soy lecithin"]],
   [raw |-> "Ingredients: cocoa, lecithin",
    ing |-> [original |-> "lecithin", english |-> "Lecithin", normalized |-> ""]],
   [raw |-> "Ingredients: cocoa, emulsifier (E 322), milk",
    ing |-> [original |-> "emulsifier (E 322)", english |-> "emulsifier (lecithin)",
             normalized |-> "lecithin"]],
   [raw |-> "Ingredients: flour, egg lecithin, soy flour",
    ing |-> [original |-> "egg lecithin", english |-> "egg lecithin", normalized |-> "egg lecithin"]],
   [raw |-> "Ingredients: milk chocolate (sugar, milk, rapeseed lecithin), salt",
    ing |-> [original |-> "milk chocolate (sugar, milk, rapeseed lecithin)",
             english |-> "milk chocolate", normalized |-> "milk chocolate"]],
   [raw |-> "Ingredients: whole milk, tofu",
    ing |-> [original |-> "whole milk", english |-> "milk", normalized |-> "milk"]],
   [raw |-> "Ingredients: whole milk, tofu",
    ing |-> [original |-> "tofu", english |-> "tofu", normalized |-> "tofu"]],
   [raw |-> "Ingredients: sugar, salt",
    ing |-> [original |-> "sugar", english |-> "sugar", normalized |-> "sugar"]]}

InitItem ==
  /\ \E item \in LabelItems :
       /\ raw_text = item.raw
       /\ ingredients = <<item.ing>>
  /\ user_allergens \in UserAllergenLists
  /\ pc = "lecithin_correction"
  /\ result = NoResult
  /\ zone_result = NoResult
  /\ diet = None
  /\ parse_calls = <<>>
  /\ ingredient_results = <<>>
  /\ ingredient_text = ""
  /\ original_text = ""
  /\ strict_mode = TRUE
  /\ e_nums = <<>>
  /\ halal_config_cache = <<>>
  /\ disk_reads = <<>>
  /\ cache_stores = <<>>
  /\ config_name = <<>>
  /\ config = <<>>

\* app.py 3358-3416: normalized and original of the item, then the lecithin
\* correction of its names
LecithinCorrection ==
  /\ pc = "lecithin_correction"
  /\ ingredient_text' = normalized_of(ingredients[1])
  /\ original_text' = lower(ingredients[1].original)
  /\ result' = lecithin_correction(ingredients[1], raw_text)
  /\ pc' = "allergy_flag"
  /\ UNCHANGED <<strict_mode, e_nums, diet, ingredient_results, user_allergens, raw_text,
                 zone_result, parse_calls, ingredients, halal_config_cache, disk_reads,
                 cache_stores, config_name, config>>

\* app.py 3436-3470: the entry appended to enhanced, with the allergy flag
AllergyFlag ==
  /\ pc = "allergy_flag"
  /\ result' = [name |-> result.display_name,
                original |-> ingredients[1].original,
                english |-> result.corrected_english,
                allergy_flag |-> app_check_allergy(allergy_check_text(ingredients[1], raw_text),
                                                   user_allergens)]
  /\ pc' = "return"
  /\ UNCHANGED <<ingredient_text, original_text, strict_mode, e_nums, diet, ingredient_results,
                 user_allergens, raw_text, zone_result, parse_calls, ingredients,
                 halal_config_cache, disk_reads, cache_stores, config_name, config>>

NextItem == LecithinCorrection \/ AllergyFlag

SpecItem == InitItem /\ [][NextItem]_vars

\* The terms of the allergens of allergies found in text
listed_allergen_terms(text, allergies) ==
  {term \in UNION {Range(get_allergen_terms(allergies[i])) : i \in DOMAIN allergies} :
     app_word_in_text(lower(text), term)}

\* C25: check_allergy returns a positive flag whenever the text holds a term
\* of an allergen of the user's list, also when the text mentions lecithin:
\* the text the scan handler hands to check_allergy for an item (the raw
\* label for a lecithin item) that holds such a term gets a positive flag.
C25_LecithinDoesNotHideAllergens ==
  (/\ pc = "return"
   /\ listed_allergen_terms(allergy_check_text(ingredients[1], raw_text), user_allergens) # {})
  => result.allergy_flag

\* The display name the lecithin correction gives the item when the label
\* holds nothing but the item
own_display_name(ing) == lecithin_correction(ing, lower(ing.original)).display_name

\* C27: the source resolved for a lecithin item is the one attached to the
\* lecithin: the display name of a lecithin item is the one it has on a
\* label without the other ingredients.
C27_LecithinSourceIsItsOwn ==
  pc = "return" => result.name = own_display_name(ingredients[1])

(***************************************************************************)
(* Properties relating the three diet evaluators                           *)
(***************************************************************************)

\* C28: for every ingredient text, a text NOT_COMPLIANT for pescetarians is
\* NOT_COMPLIANT for vegetarians, and a text NOT_COMPLIANT for vegetarians
\* is NOT_COMPLIANT for vegans.
C28_DietStrictnessOrdering ==
  (pc = "return" /\ diet \in {"vegan", "vegetarian", "pescetarian"}) =>
    /\ evaluate_pescetarian(ingredient_text).status = NOT_COMPLIANT
         => evaluate_vegetarian(ingredient_text).status = NOT_COMPLIANT
    /\ evaluate_vegetarian(ingredient_text).status = NOT_COMPLIANT
         => evaluate_vegan(ingredient_text).status = NOT_COMPLIANT

(***************************************************************************)
(* Properties relating the E-number registry and the animal-derivative     *)
(* registry                                                                *)
(***************************************************************************)

\* The additives standing in E_NUMBERS_CONFIG by number and in
\* ANIMAL_DERIVATIVES_CONFIG by name
ADDITIVE_NAMES ==
  << <<"e120", "carmine">>, <<"e441", "gelatin">>, <<"e422", "glycerin">>, <<"e901", "beeswax">>,
     <<"e904", "shellac">>, <<"e913", "lanolin">>, <<"e920", "l-cysteine">> >>

\* C29: for an additive of both registries, evaluate_halal_strict returns
\* the same status for a text naming only the E-number as for a text naming
\* only the additive's name.
C29_ENumberAndNameAgree ==
  \A k \in DOMAIN ADDITIVE_NAMES :
     (pc = "return" /\ ingredient_text = ADDITIVE_NAMES[k][1] /\ original_text = "") =>
        \A names \in extract_enumbers(normalize_text(ADDITIVE_NAMES[k][2])) :
           result.status = evaluate_halal_strict(ADDITIVE_NAMES[k][2], strict_mode, "", names).status

(***************************************************************************)
(* app.py: its own halal rule engine.  load_halal_config reads the tables  *)
(* from JSON files; here the engine runs on the tables of                  *)
(* backend/services/config.py, the knowledge base both engines share, the  *)
(* lists HARAM_COLORANTS and INHERENTLY_HALAL_PLANT_SIMPLE included.       *)
(***************************************************************************)

\* app.py 524-525
app_any_word_in_text(text, phrases) == \E i \in DOMAIN phrases : app_word_in_text(text, phrases[i])

\* app.py 528-546: sorted(found) for the two patterns of extract_enumbers;
\* the group (\d{3,4}) is taken greedily
app_extract_enumbers(text) ==
  LET t == app_normalize_text(text)
      n == Len(t)
      DigitsFrom(j, k) == j >= 1 /\ j + k - 1 <= n /\ \A d \in j..(j + k - 1) : Char(t, d) \in Digits
      Group(j) == IF DigitsFrom(j, 4) /\ WordBoundary(t, j + 3) THEN SubSeq(t, j, j + 3)
                  ELSE IF DigitsFrom(j, 3) /\ WordBoundary(t, j + 2) THEN SubSeq(t, j, j + 2)
                  ELSE ""
      Starts == {i \in 1..n : StartsAt(t, i, "e") /\ WordBoundary(t, i - 1)}
      found == UNION {
                 UNION {
                   {Group(c) : c \in UNION {SpacesFrom(t, b) :
                                              b \in (IF StartsAt(t, a, "-") THEN {a, a + 1} ELSE {a})}}
                   \cup (IF StartsAt(t, a, "number")
                         THEN {Group(c) : c \in SpacesFrom(t, a + Len("number"))}
                         ELSE {})
                   : a \in SpacesFrom(t, i + 1)}
                 : i \in Starts}
  IN sorted(found \ {""})

\* app.py 276-311
app_check_halal_certification(text) ==
  LET text_lower == app_normalize_text(text)
      HasTerms(data) == app_any_word_in_text(text_lower, data.terms)
      c == FirstIndex({i \in 1..Len(CERTIFIERS_CONFIG.strong_certifiers) :
                         HasTerms(CERTIFIERS_CONFIG.strong_certifiers[i])})
  IN IF c # 0 THEN CERTIFIERS_CONFIG.strong_certifiers[c].strength
     ELSE IF app_any_word_in_text(text_lower, CERTIFIERS_CONFIG.generic_strong_terms) THEN "HIGH"
     ELSE IF app_any_word_in_text(text_lower, CERTIFIERS_CONFIG.certification_phrases.strong)
     THEN "MEDIUM"
     ELSE IF HasTerms(CERTIFIERS_CONFIG.weak_signals) THEN "WEAK"
     ELSE "NONE"

\* app.py 314-389
app_check_animal_derivative_status(text) ==
  LET text_lower == app_normalize_text(text)
      HasTerms(data) == app_any_word_in_text(text_lower, data.terms)
      HasGeneric(data) == app_any_word_in_text(text_lower, data.generic_terms)
      Default(data) == [status |-> data.default_status, reason_code |-> data.reason_code, reason |-> data.reason]
      FirstWithTerms(table) == FirstIndex({i \in 1..Len(table) : HasTerms(table[i])})
      ah == FirstWithTerms(ANIMAL_DERIVATIVES_CONFIG.always_haram)
      sd == FirstIndex({i \in 1..Len(ANIMAL_DERIVATIVES_CONFIG.source_dependent) :
                          HasGeneric(ANIMAL_DERIVATIVES_CONFIG.source_dependent[i])})
      dairy == ANIMAL_DERIVATIVES_CONFIG.processed_dairy
      cultures == ANIMAL_DERIVATIVES_CONFIG.starter_cultures
      oa == FirstWithTerms(ANIMAL_DERIVATIVES_CONFIG.other_animal_derived)
  IN IF ah # 0
     THEN LET data == ANIMAL_DERIVATIVES_CONFIG.always_haram[ah]
          IN [status |-> "HARAM", reason_code |-> data.reason_code, reason |-> data.reason]
     ELSE IF sd # 0
     THEN LET data == ANIMAL_DERIVATIVES_CONFIG.source_dependent[sd]
              src == FirstWithTerms(data.sources)
          IN IF src # 0
             THEN LET source_data == data.sources[src]
                      suffix == IF source_data.status = "HALAL" THEN "_halal"
                                ELSE IF source_data.status = "HARAM" THEN "_haram"
                                ELSE "_mushbooh"
                  IN [status |-> source_data.status,
                      reason_code |-> data.ingredient_type \o "_" \o source_data.source_name \o suffix,
                      reason |-> source_data.reason]
             ELSE [status |-> data.default_status, reason_code |-> data.reason_code,
                   reason |-> data.default_reason]
     ELSE IF HasTerms(dairy)
     THEN IF app_any_word_in_text(text_lower, dairy.halal_qualifiers)
          THEN [status |-> "HALAL", reason_code |-> "dairy_halal_qualified",
                reason |-> "Dairy with halal qualifier detected"]
          ELSE Default(dairy)
     ELSE IF HasTerms(cultures) THEN Default(cultures)
     ELSE IF oa # 0 THEN Default(ANIMAL_DERIVATIVES_CONFIG.other_animal_derived[oa])
     ELSE NoFinding

\* app.py 170-214
app_check_alcohol_status(text) ==
  LET text_lower == app_normalize_text(text)
      Hit(group) == app_any_word_in_text(text_lower, group.terms)
      Found(status, group) == [status |-> status, reason_code |-> group.reason_code, reason |-> group.reason]
  IN IF Hit(ALCOHOL_CONFIG.halal_alternatives) THEN Found("HALAL", ALCOHOL_CONFIG.halal_alternatives)
     ELSE IF Hit(ALCOHOL_CONFIG.low_risk_fermented) THEN Found("HALAL", ALCOHOL_CONFIG.low_risk_fermented)
     ELSE IF Hit(ALCOHOL_CONFIG.explicit_alcohols) THEN Found("HARAM", ALCOHOL_CONFIG.explicit_alcohols)
     ELSE IF Hit(ALCOHOL_CONFIG.alcoholic_beverages) THEN Found("HARAM", ALCOHOL_CONFIG.alcoholic_beverages)
     ELSE IF Hit(ALCOHOL_CONFIG.alcohol_processing) THEN Found("HARAM", ALCOHOL_CONFIG.alcohol_processing)
     ELSE IF Hit(ALCOHOL_CONFIG.high_risk_extracts) THEN Found("HARAM", ALCOHOL_CONFIG.high_risk_extracts)
     ELSE NoFinding

\* app.py 726-765
app_detect_lecithin_source_combined(original, normalized) ==
  LET orig == app_detect_lecithin_source(original)
      norm == app_detect_lecithin_source(normalized)
      specific(r) == r.is_lecithin /\ r.source # None /\ r.source # "unspecified"
  IN IF ~orig.is_lecithin /\ ~norm.is_lecithin
     THEN [is_lecithin |-> FALSE, source |-> None, explanation |-> None]
     ELSE IF specific(orig)
     THEN [is_lecithin |-> TRUE, source |-> orig.source,
           explanation |-> orig.explanation \o " (from original text)"]
     ELSE IF specific(norm)
     THEN [is_lecithin |-> TRUE, source |-> norm.source,
           explanation |-> norm.explanation \o " (from normalized text)"]
     ELSE [is_lecithin |-> TRUE, source |-> "unspecified",
           explanation |-> "Lecithin with unspecified source"]

\* The HalalResult a `return` of app.py's evaluate_halal_strict builds from
\* the reasons and evidence collected so far
app_result(ing_raw, status, confidence, findings) ==
  HalalResult(ing_raw, status, confidence, dedupe(reason_codes_of(findings)),
              dedupe(evidence_of(findings)))

\* app.py 1028-1050: 1) animal derivatives
app_animal_step(ing_raw, animal) ==
  IF animal.status = "HARAM"
  THEN Return(app_result(ing_raw, HARAM, CONF_HIGH, <<Finding(animal.reason_code, animal.reason)>>))
  ELSE NoReturn

\* app.py 1052-1059: 2) colorants
app_colorant_step(ing_raw, ing, findings) ==
  IF /\ app_any_word_in_text(ing, HARAM_COLORANTS)
     /\ ~\E i \in DOMAIN findings : Contains(findings[i].reason_code, "insect")
  THEN Return(app_result(ing_raw, HARAM, CONF_HIGH,
                Append(findings, Finding("haram_carmine_cochineal",
                                         "Detected carmine/cochineal (commonly E120)"))))
  ELSE NoReturn

\* app.py 1061-1081: 3) the loop over the E-numbers
RECURSIVE app_enumber_loop(_, _, _)
app_enumber_loop(en, ing_raw, findings) ==
  IF en = <<>> THEN [returned |-> FALSE, findings |-> findings]
  ELSE LET e == Head(en)
           e_status == get_enumber_status(e)
           e_details == e_status.details
           found == Append(findings, Finding(e_details.reason_code,
                      "Detected E" \o e \o " (" \o e_details.name \o ") - " \o e_details.reason))
       IN IF e_status.status = "HARAM"
          THEN Return(app_result(ing_raw, HARAM, CONF_HIGH, found))
          ELSE IF e_status.status = "MUSHBOOH"
          THEN app_enumber_loop(Tail(en), ing_raw, found)
          ELSE app_enumber_loop(Tail(en), ing_raw, findings)

\* app.py 1083-1099: 4) alcohol
app_alcohol_findings(alcohol, strong_cert) ==
  IF alcohol.status = "HALAL" THEN <<Finding(alcohol.reason_code, alcohol.reason)>>
  ELSE IF alcohol.status = "HARAM"
  THEN IF strong_cert
       THEN <<Finding("alcohol_related_term_present_but_halal_cert_claim",
                      alcohol.reason \o "; but strong halal certification phrase detected")>>
       ELSE <<Finding(alcohol.reason_code, alcohol.reason)>>
  ELSE <<>>

app_alcohol_step(ing_raw, alcohol, strong_cert, findings) ==
  IF alcohol.status = "HARAM" /\ ~strong_cert
  THEN Return(app_result(ing_raw, HARAM, CONF_HIGH, findings))
  ELSE NoReturn

\* app.py 1101-1138: 5) gelatin; findings holds the reasons collected so far
app_is_gelatin(ing) == app_word_in_text(ing, "gelatin") \/ app_contains_enumber(ing, "441")

app_gelatin_step(ing_raw, ing, findings) ==
  IF ~app_is_gelatin(ing) THEN NoReturn
  ELSE IF app_any_word_in_text(ing, <<"porcine", "pig", "swine">>)
  THEN Return(HalalResult(ing_raw, HARAM, CONF_HIGH, <<"haram_porine_gelatin">>,
                          <<"Porcine gelatin detected">>))
  ELSE IF app_any_word_in_text(ing, <<"halal gelatin", "gelatin (halal)">>)
  THEN Return(app_result(ing_raw, HALAL_CONFIRMED, CONF_HIGH,
                Append(findings, Finding("halal_gelatin_explicit", "Gelatin explicitly labeled halal"))))
  ELSE IF app_any_word_in_text(ing, <<"fish gelatin">>)
  THEN Return(app_result(ing_raw, HALAL_CONFIRMED, CONF_HIGH,
                Append(findings, Finding("fish_gelatin", "Fish-derived gelatin"))))
  ELSE NoReturn

app_gelatin_findings(ing) ==
  IF app_is_gelatin(ing) /\ app_any_word_in_text(ing, <<"bovine gelatin", "beef gelatin">>)
  THEN <<Finding("bovine_gelatin_unverified", "Bovine gelatin without explicit halal certification")>>
  ELSE <<>>

\* app.py 1140-1223: 5.5) lecithin
app_lecithin_step(ing_raw, lecithin, strong_cert, findings) ==
  LET Halal(code, ev) == Return(app_result(ing_raw, HALAL_CONFIRMED, CONF_HIGH,
                                           Append(findings, Finding(code, ev))))
  IN IF ~lecithin.is_lecithin THEN NoReturn
     ELSE IF lecithin.source = "sunflower"
     THEN Halal("sunflower_lecithin_halal", "Sunflower lecithin detected - plant-based, halal")
     ELSE IF lecithin.source = "soy"
     THEN IF strong_cert
          THEN Halal("soy_lecithin_certified_halal",
                     "Soy lecithin with halal certification - verified halal")
          ELSE Return(app_result(ing_raw, NOT_HALAL_UNVERIFIED, CONF_MED,
                 Append(findings, Finding("soy_lecithin_unverified_mushbooh",
                   "Soy lecithin detected - processing may involve alcohol; requires halal certification"))))
     ELSE IF lecithin.source = "rapeseed"
     THEN Halal("rapeseed_lecithin_halal", "Rapeseed/canola lecithin detected - plant-based, halal")
     ELSE IF lecithin.source = "egg"
     THEN Halal("egg_lecithin_halal", "Egg lecithin detected - halal (note: egg allergen)")
     ELSE NoReturn

app_lecithin_findings(lecithin, strong_cert) ==
  IF lecithin.is_lecithin /\ lecithin.source \notin {"sunflower", "soy", "rapeseed", "egg"}
  THEN IF strong_cert
       THEN <<Finding("lecithin_unspecified_but_certified",
                      "Lecithin source unspecified, but product has halal certification")>>
       ELSE <<Finding("lecithin_source_unspecified_mushbooh",
                      "Lecithin detected but source not specified - possible soy, egg, or plant origin")>>
  ELSE <<>>

\* app.py 1229-1240: 9) flavourings
app_flavor_findings(ing) ==
  IF app_any_word_in_text(ing, <<"natural flavor", "natural flavour">>)
  THEN <<Finding("natural_flavour_source_unknown_mushbooh", "Natural flavours have undisclosed sources")>>
  ELSE IF app_any_word_in_text(ing, <<"artificial flavor", "artificial flavour">>)
  THEN <<Finding("artificial_flavour", "Artificial flavouring (no alcohol indicated)")>>
  ELSE <<>>

\* app.py 407-408
app_is_inherently_halal(ing) == app_any_word_in_text(ing, INHERENTLY_HALAL_PLANT_SIMPLE)

\* app.py 1247-1285: 11) status, confidence and the finding added at the end
app_determine_final_status(ing, reasons, strong_cert, weak_cert) ==
  IF strong_cert THEN [status |-> HALAL_CONFIRMED, confidence |-> CONF_HIGH, added |-> <<>>]
  ELSE IF \E rc \in Range(reasons) : IsHaramTag(rc)
  THEN [status |-> HARAM, confidence |-> CONF_HIGH, added |-> <<>>]
  ELSE IF \E rc \in Range(reasons) : IsMushboohTag(rc)
  THEN IF halal_reasons(reasons) # {} /\ Cardinality(halal_reasons(reasons)) >= Cardinality(mushbooh_reasons(reasons))
       THEN [status |-> HALAL_CONFIRMED, confidence |-> CONF_HIGH, added |-> <<>>]
       ELSE [status |-> MUSHBOOH, confidence |-> IF weak_cert THEN CONF_MED ELSE CONF_LOW, added |-> <<>>]
  ELSE IF \E rc \in Range(reasons) : EndsWith(rc, "_halal")
  THEN [status |-> HALAL_CONFIRMED, confidence |-> CONF_HIGH, added |-> <<>>]
  ELSE IF app_is_inherently_halal(ing)
  THEN [status |-> HALAL_CONFIRMED, confidence |-> CONF_HIGH,
        added |-> <<Finding("inherently_halal_by_nature", "Plant-based ingredient; halal by default")>>]
  ELSE [status |-> HALAL_CONFIRMED, confidence |-> CONF_MED,
        added |-> <<Finding("no_haram_indicators_detected", "No haram indicators detected; default halal")>>]

\* app.py 1083-1303: the steps after the E-number loop; enumbers is what the
\* loop left, a result returned at once or the reasons collected so far
app_evaluate_halal_steps(ing_raw, ing, strict, strength, alcohol, enumbers, lecithin) ==
  LET strong_cert == strength \in {"HIGH", "MEDIUM"}
      weak_cert == strength = "WEAK"
      after_alcohol == enumbers.findings \o app_alcohol_findings(alcohol, strong_cert)
      after_gelatin == after_alcohol \o app_gelatin_findings(ing)
      findings == after_gelatin \o app_lecithin_findings(lecithin, strong_cert)
                    \o app_flavor_findings(ing)
  IN OrElse(enumbers,
     OrElse(app_alcohol_step(ing_raw, alcohol, strong_cert, after_alcohol),
     OrElse(app_gelatin_step(ing_raw, ing, after_alcohol),
     OrElse(app_lecithin_step(ing_raw, lecithin, strong_cert, after_gelatin),
            final_result(ing_raw, strict, findings,
                         app_determine_final_status(ing, reason_codes_of(findings),
                                                    strong_cert, weak_cert))))))

\* app.py 1024-1081: certification, animal derivatives, colorants and the
\* E-number loop, each step seeing the reasons of the steps before it
app_evaluate_halal_checks(ing_raw, ing, strict, strength, animal, after_animal, alcohol, lecithin) ==
  OrElse(app_animal_step(ing_raw, animal),
  OrElse(app_colorant_step(ing_raw, ing, after_animal),
         app_evaluate_halal_steps(ing_raw, ing, strict, strength, alcohol,
                                  app_enumber_loop(app_extract_enumbers(ing), ing_raw, after_animal),
                                  lecithin)))

app_evaluate_halal_normalized(ing_raw, ing, orig, strict, strength, animal) ==
  app_evaluate_halal_checks(ing_raw, ing, strict, strength, animal,
                            animal_findings(animal, strength \in {"HIGH", "MEDIUM"}),
                            app_check_alcohol_status(ing),
                            IF orig # "" THEN app_detect_lecithin_source_combined(orig, ing)
                            ELSE app_detect_lecithin_source(ing))

\* app.py 1003-1303; original is "" for None
app_evaluate_halal_texts(ing_raw, ing, orig, strict) ==
  app_evaluate_halal_normalized(ing_raw, ing, orig, strict, app_check_halal_certification(ing),
                                app_check_animal_derivative_status(ing))

app_evaluate_halal_strict(ingredient, strict, original) ==
  app_evaluate_halal_texts(ingredient, app_normalize_text(ingredient),
                           IF original # "" THEN app_normalize_text(original) ELSE "", strict)

(***************************************************************************)
(* The two rule engines on the same inputs: backend/services/halal.py and  *)
(* app.py each evaluate the ingredient, on the same knowledge base.        *)
(***************************************************************************)

\* Gelatin texts in the spellings and with the qualifiers the two gelatin
\* steps look for, and a label line naming two plants
EngineTexts ==
  IngredientPhrases
    \cup {"gelatine", "gelatin (halal)", "gelatine (halal)", "beef gelatine (halal)",
          "halal gelatin", "halal gelatine", "pork gelatin", "porcine gelatin",
          "fish gelatin", "fish gelatine", "bovine gelatine",
          "sunflower oil, soy lecithin"}

InitEngines ==
  /\ ingredient_text \in EngineTexts
  /\ original_text \in {""} \cup OriginalTexts
  /\ strict_mode \in BOOLEAN
  /\ pc = "call"
  /\ result = NoResult
  /\ zone_result = NoResult
  /\ diet = "halal"
  /\ e_nums = <<>>
  /\ ingredient_results = <<>>
  /\ user_allergens = <<>>
  /\ raw_text = ""
  /\ parse_calls = <<>>
  /\ ingredients = <<>>
  /\ halal_config_cache = <<>>
  /\ disk_reads = <<>>
  /\ cache_stores = <<>>
  /\ config_name = <<>>
  /\ config = <<>>

\* backend/services/halal.py 199-458
EvaluateBackend ==
  /\ pc = "call"
  /\ e_nums' \in extract_enumbers(normalize_text(ingredient_text))
  /\ ingredient_results' = <<evaluate_halal_strict(ingredient_text, strict_mode, original_text, e_nums')>>
  /\ pc' = "app_call"
  /\ UNCHANGED <<ingredient_text, original_text, strict_mode, diet, result, user_allergens, raw_text,
                 zone_result, parse_calls, ingredients, halal_config_cache, disk_reads,
                 cache_stores, config_name, config>>

\* app.py 1003-1303
EvaluateApp ==
  /\ pc = "app_call"
  /\ ingredient_results' = Append(ingredient_results,
                                  app_evaluate_halal_strict(ingredient_text, strict_mode, original_text))
  /\ pc' = "return"
  /\ UNCHANGED <<ingredient_text, original_text, strict_mode, e_nums, diet, result, user_allergens,
                 raw_text, zone_result, parse_calls, ingredients, halal_config_cache, disk_reads,
                 cache_stores, config_name, config>>

NextEngines == EvaluateBackend \/ EvaluateApp

SpecEngines == InitEngines /\ [][NextEngines]_vars

\* C30: given the same knowledge base, evaluate_halal_strict of app.py and
\* evaluate_halal_strict of backend/services/halal.py return the same status
\* and the same confidence for every ingredient text, original text and
\* strict_mode value.
C30_EnginesAgree ==
  pc = "return" =>
    /\ ingredient_results[1].status = ingredient_results[2].status
    /\ ingredient_results[1].confidence = ingredient_results[2].confidence

=============================================================================
